---------------------------- MODULE Spec2Model ----------------------------
(***************************************************************************)
(* Verification model of the cumstack reactive runtime (signals, effects,  *)
(* memos, batches, async resources) and of the hydration / reconciliation  *)
(* engine.  JavaScript is single threaded: one TLA+ action is one          *)
(* synchronous call made by user code, computed to completion by the       *)
(* recursive operators below, which thread the runtime state as a record.  *)
(***************************************************************************)
EXTENDS Integers, Sequences, FiniteSets, TLC

(***************************************************************************)
(* Bounds                                                                  *)
(***************************************************************************)
MaxVal == 2          \* user code writes the values 0..MaxVal
MaxDepth == 2        \* nesting depth of user batch() calls
MaxOps == 2          \* user calls made inside one outermost batch
NEff == 3            \* effects / memos constructed by user code
MaxFetch == 3        \* refetch calls made on the resource
NResult == 2         \* distinct results and rejection reasons of the fetcher
MaxRegs == 2         \* cleanup functions one effect returns before user code stops
MaxKids == 2         \* children of a live or virtual node
MaxKeys == 3         \* keyed siblings of a reordered list
NElem == 3           \* elements nested below the document in the event model
MaxPasses == 2       \* hydration passes over the same live elements
MaxHandles == 3      \* calls of useLocation
MaxNav == 2          \* navigations made after a mount
StackLimit == 2      \* nested runs of an effect the call stack of the engine holds
MaxChanges == 3      \* file-system events the watcher of the dev server reports
MaxClients == 1      \* HMR clients connected to the dev server
MaxSockets == 12     \* WebSockets the HMR client constructs

(***************************************************************************)
(* Part I - reactivity.js : createMoan, onClimax, knotMemo, batch, untrack *)
(***************************************************************************)
UserSig == {1, 2}                \* signals created directly by user code
Eff == 1..NEff
OutSig(e) == Cardinality(UserSig) + e   \* output signal of the memo built in slot e
Sig == 1..(Cardinality(UserSig) + NEff)
Undefined == -1                  \* JS undefined (createMoan() without argument)
NoEffect == 0                    \* JS null for currentEffect
UserFns == {NEff + 1}            \* plain functions user code hands to batch.schedule

VARIABLES
  value,          \* createMoan: value of every signal
  subscribers,    \* createMoan: subscriber Set of every signal (insertion order)
  currentEffect,  \* module variable currentEffect
  effectStack,    \* module variable effectStack
  batchDepth,     \* module variable batchDepth
  pending,        \* module variable pending: [isNull, items]
  schedule,       \* module variable schedule: "null" or "defer"
  prog,           \* the program user code runs: the bodies it constructs
  eff,            \* per constructed effect: body description and closure state
  created,        \* number of effects constructed so far
  prevStack,      \* the local `prev` of every batch() call user code has open
  opsInBatch,     \* user calls made since the outermost batch was entered
  log,            \* events of the last user call
  lastOp,         \* description of the last user call
  schedLog,       \* effects handed to schedule() since the outermost batch entry
  incRun          \* the open batch so far made k calls w(c => c + 1) on signal s
                  \* (holding base at entry) and no other call; k = 0: no such run

VARIABLES
  res,            \* loadShot: the signals data, loading, error and `controller`
  fetches,        \* every refetch call: its AbortSignal and its promise
  settled,        \* ids of the refetch calls whose continuation has run, in order
  queued,         \* queueMicrotask(refetch) of the constructor has not run yet
  rlog,           \* setter calls made by the last resource operation
  rop             \* description of the last resource operation

resvars == <<res, fetches, settled, queued, rlog, rop>>

VARIABLES
  live,           \* the child nodes of the mount container (the live document)
  vtree,          \* the virtual tree handed to hydrateDOMElement
  hst,            \* node-id counter and the steps taken by the last pass
  passes          \* reconciliation passes run so far

hvars == <<live, vtree, hst, passes>>

VARIABLES
  handlerLists,   \* element[eventKey]: the handler array of every element and event
  delegatedEvents,\* keys of the module Map delegatedEvents
  rootListeners,  \* capture listeners added to the delegation root, in order
  attrs,          \* the event-handler attribute of every element's virtual node
  npass,          \* hydration passes made over the elements
  dlog,           \* handler invocations of the last dispatched event
  dop             \* description of the last event operation

evars == <<handlerLists, delegatedEvents, rootListeners, attrs, npass, dlog, dop>>

rvars == <<value, subscribers, currentEffect, effectStack, batchDepth, pending,
           schedule, prog, eff, created, prevStack, opsInBatch, log, lastOp, schedLog,
           incRun>>

VARIABLES
  locationInstance, \* module variable locationInstance: null or [sig, refCount]
  winListeners,     \* window listeners per event name: the `update` closures, by signal
  handles,          \* the objects useLocation has returned: [sig, disposed, epoch]
  locValue,         \* value of every location signal createMoan(getLoc()) made
  winPath,          \* window.location
  historyPatched,   \* window.__locationPatched
  epoch,            \* how often the number of undisposed handles returned to zero
  lop               \* description of the last useLocation operation

lvars == <<locationInstance, winListeners, handles, locValue, winPath, historyPatched,
           epoch, lop>>

VARIABLES
  mnt               \* client.js: module state, mount container and window of a mount

VARIABLES
  dev,              \* dev.js: the closure state of dev() and its timers and builds
  hmr               \* hmr.js: the module state, the sockets and the timers
tvars == <<dev, hmr>>

vars == <<rvars, resvars, hvars, evars, lvars, mnt, tvars>>

\* ---- small helpers ------------------------------------------------------
Has(seq, x) == \E i \in 1..Len(seq) : seq[i] = x
\* variant: re-adding an element moves it to the end
SetAddMoveLast(seq, x) == Append(SelectSeq(seq, LAMBDA y : y # x), x)

\* Set.prototype.add: keeps the first insertion position
SetAdd(seq, x) == IF Has(seq, x) THEN seq ELSE Append(seq, x)
Range(seq) == {seq[i] : i \in 1..Len(seq)}
RECURSIVE Dedup(_, _)
Dedup(seq, i) ==
  IF i > Len(seq) THEN <<>>
  ELSE LET rest == Dedup(seq, i + 1)
       IN IF \E j \in 1..(i - 1) : seq[j] = seq[i] THEN rest ELSE <<seq[i]>> \o rest

NullPending == [isNull |-> TRUE, items |-> <<>>]
EmptyPending == [isNull |-> FALSE, items |-> <<>>]

\* variant: a truthiness-guarded comparison, which treats 0 as never equal
ObjectIsTruthy(a, b) == a = b /\ a # 0

\* Object.is on the modelled values (integers and undefined)
ObjectIs(a, b) == a = b

\* the user functions effects and updaters are built from
Fn(name, vals) ==
  CASE name = "id"   -> vals[1]
    [] name = "mod2" -> IF vals[1] = Undefined THEN Undefined ELSE vals[1] % 2
    [] name = "sum"  -> IF \E i \in 1..Len(vals) : vals[i] = Undefined THEN Undefined
                        ELSE vals[1] + vals[2]
    [] name = "inc"  -> IF vals[1] = Undefined THEN Undefined ELSE vals[1] + 1
    [] OTHER -> Undefined

\* an effect: the description of its function (kind, reads, fn, out, ret), the
\* variables of its closure (disposed, cleanup, cached, initialized), and
\* bookkeeping about its runs: inv[k] counts the calls of the k-th function it
\* returned (2: more than one), seen is the set of signals its latest run
\* read, threw tells whether its latest run ended in the catch block and
\* bodyThrew whether the function itself threw in that run, released whether
\* user code has called its disposer
NoBody == [created |-> FALSE, kind |-> "none", reads |-> <<>>, fn |-> "id", out |-> 0,
           ret |-> "none", disposed |-> FALSE, cleanup |-> <<>>,
           cached |-> Undefined, initialized |-> FALSE,
           cleanupReads |-> 0, inv |-> <<>>, seen |-> {}, threw |-> FALSE, bodyThrew |-> FALSE,
           released |-> FALSE]

\* ---- loadShot: the operations on a resource --------------------------------
\* (the dependency effect of a resource calls refetch from inside an effect
\* run, so they come before the operators that run effects)
Null == 0                        \* JS null: initialValue, error, controller
Results == 1..NResult
FetchId == 1..MaxFetch
\* a call of refetch: state / outcome / val of the fetcher's promise, aborted
\* of its AbortSignal, promise: the state of the promise refetch returned,
\* by: who made the call ("tick": the constructor's microtask, "refetch": user
\* code, "deps": the dependency effect)
NoFetch == [state |-> "none", aborted |-> FALSE, outcome |-> "none", val |-> Null,
            promise |-> "none", by |-> "none"]

\* a setter of one of the resource's signals, called inside batch(); the
\* resource's signals have no subscribers here, so the write is the
\* Object.is test and the assignment
setField(st, name, v) ==
  LET r == [st EXCEPT !.calls = Append(@, <<name, v>>)]
  IN IF ObjectIs(st.res[name], v) THEN r ELSE [r EXCEPT !.res[name] = v]

\* variant: the continuation writes without consulting the abort signal
notAbortedIgnored(f) == TRUE

\* !signal.aborted
notAborted(f) == ~f.aborted

\* controller.abort() / controller?.abort()
abort(fs, c) == IF c = Null THEN fs ELSE [fs EXCEPT ![c].aborted = TRUE]

\* variant: refetch has no catch block, the rejection leaves through finally
catchMissing(st, f, v) == [st EXCEPT !.promise = "rejected"]

\* catch (err) { batch(() => { if (!signal.aborted) setError(err) }) }
catchBlock(st, f, v) == IF notAborted(f) THEN setField(st, "error", v) ELSE st

\* the continuation of refetch after `await fetcher(signal)`: try or catch
\* block, then the finally block; st.promise is how the async function ends
continuation(st, f, outcome, v) ==
  LET s1 == IF outcome = "fulfilled"
            THEN (IF notAborted(f) THEN setField(st, "data", v) ELSE st)
            ELSE catchBlock(st, f, v)
  IN IF notAborted(f) THEN setField(s1, "loading", FALSE) ELSE s1

\* the state a call of refetch starts from: its setter calls and its promise
Call(r) == [res |-> r, calls |-> <<>>, promise |-> "fulfilled"]

\* variant: refetch leaves the previous controller alone
refetchKeepsPrevious(r, fs, k, by) ==
  LET st == setField(setField(Call([r EXCEPT !.controller = k]), "loading", TRUE),
                     "error", Null)
  IN [res |-> st.res, calls |-> st.calls,
      fetches |-> [fs EXCEPT ![k].state = "pending", ![k].promise = "pending",
                              ![k].by = by]]

\* refetch(), up to the await, on resource r with fetch records fs: the
\* previous controller is aborted, a new one installed, loading and error are
\* reset, the fetcher is called and returns a promise
refetch(r, fs, k, by) ==
  LET st == setField(setField(Call([r EXCEPT !.controller = k]), "loading", TRUE),
                     "error", Null)
  IN [res |-> st.res, calls |-> st.calls,
      fetches |-> [abort(fs, r.controller) EXCEPT ![k].state = "pending",
                                                  ![k].promise = "pending",
                                                  ![k].by = by]]

\* variant: dispose does nothing
resourceDisposeNoop(fs, c) == fs

\* dispose = () => controller?.abort()
resourceDispose(fs, c) == abort(fs, c)

\* variant: the microtask queues itself again
microtaskAgain(q) == q

\* the microtask queue hands the callback out once
microtask(q) == FALSE

\* the number refetch gives its next call
NextFetchOf(fs) == Cardinality({k \in FetchId : fs[k].state # "none"}) + 1

\* ---- cowgirl: the state of a mount -----------------------------------------
\* what the handler registered for a path does: no route, a handler that
\* returns a tree, a handler that throws an Error, a handler that throws null,
\* a handler whose tree makes createDOMElement throw (an object without type)
HandlerKinds == {"none", "ok", "throws", "throwsNull", "badTree"}

\* the two signals of createRouter
PathSig == 1
ParamsSig == 2

\* the children of the container element: nothing, the tree of a route, or
\* the error message; root is the identity of the first child
EmptyContainer == [kind |-> "empty", path |-> 0, root |-> 0]

\* the module state of client.js and the closure of one cowgirl call
NoMount ==
  [routes |-> [p \in 0..MaxVal |-> "none"], clientRouter |-> FALSE,
   isRouterInitialized |-> FALSE, popListeners |-> 0, docListeners |-> <<>>,
   observers |-> 0, mounted |-> 0, isHydrating |-> FALSE, isFirstRender |-> FALSE,
   container |-> EmptyContainer, nextNode |-> 1, winPath |-> 0, navs |-> 0]

\* the runtime state threaded through the recursive operators
RT == [value |-> value, subscribers |-> subscribers, currentEffect |-> currentEffect,
       effectStack |-> effectStack, batchDepth |-> batchDepth, pending |-> pending,
       schedule |-> schedule, eff |-> eff, log |-> <<>>, drainLvl |-> 0, fault |-> FALSE,
       threw |-> FALSE, res |-> res, fetches |-> fetches, mnt |-> mnt]

Emit(rt, ev) == [rt EXCEPT !.log = Append(@, ev)]

\* variant: the pending collection is a list, every schedule call appends
pendingAddList(rt, e, s) ==
  LET r == Emit(rt, <<"sched", e, s, rt.drainLvl>>)
  IN IF r.pending.isNull THEN [r EXCEPT !.fault = TRUE]
     ELSE [r EXCEPT !.pending.items = Append(@, e)]

\* schedule = (e) => pending.add(e)
pendingAdd(rt, e, s) ==
  LET r == Emit(rt, <<"sched", e, s, rt.drainLvl>>)
  IN IF r.pending.isNull THEN [r EXCEPT !.fault = TRUE]
     ELSE [r EXCEPT !.pending.items = SetAdd(@, e)]

\* createMoan.read
read(rt, s) ==
  LET r == IF rt.currentEffect # NoEffect
           THEN [rt EXCEPT !.subscribers[s] = SetAdd(@, rt.currentEffect),
                           !.eff[rt.currentEffect].seen = @ \cup {s}]
           ELSE rt
  IN Emit(r, <<"obs", rt.currentEffect, s, rt.value[s]>>)

RECURSIVE readAll(_, _, _)
readAll(rt, reads, i) ==
  IF i > Len(reads) THEN rt ELSE readAll(read(rt, reads[i]), reads, i + 1)

batchEnter(rt) ==
  [rt EXCEPT !.pending = IF rt.batchDepth = 0 THEN EmptyPending ELSE @,
             !.batchDepth = @ + 1,
             !.schedule = "defer"]

\* variant: the memo writes its output after every recomputation
memoChangedAlways(initialized, result, cached) == TRUE

\* knotMemo: !initialized || !Object.is(result, cached)
memoChanged(initialized, result, cached) == ~initialized \/ ~ObjectIs(result, cached)

\* the state after refetch() returned its promise to the dependency effect
startFetch(rt, e, k, c) ==
  Emit([rt EXCEPT !.res = c.res, !.fetches = c.fetches], <<"refetch", e, k, 0>>)

\* () => { const _ = deps(); refetch() }, after deps() has been read; k is the
\* number of the fetch it starts
depsBody(rt, e, k) ==
  IF k \notin FetchId THEN [rt EXCEPT !.fault = TRUE]
  ELSE startFetch(rt, e, k, refetch(rt.res, rt.fetches, k, "deps"))

RECURSIVE write(_, _, _)
RECURSIVE notify(_, _, _, _)
RECURSIVE effect(_, _, _)
RECURSIVE runBody(_, _)
RECURSIVE drain(_, _, _)
RECURSIVE batchExit(_, _)
RECURSIVE runCleanups(_, _, _, _)
RECURSIVE callItem(_, _, _)
RECURSIVE renderEffect(_, _)

\* createMoan.write, after the candidate value has been computed
write(rt, s, newValue) ==
  LET r == Emit(rt, <<"set", s, rt.value[s], newValue>>)
  IN IF ObjectIs(rt.value[s], newValue) THEN r
     ELSE notify([r EXCEPT !.value[s] = newValue], s, r.subscribers[s], 1)

\* the loop over the snapshot [...subscribers] in createMoan.write; an
\* exception leaves the loop
notify(rt, s, effects, i) ==
  IF i > Len(effects) \/ rt.threw THEN rt
  ELSE IF ~Has(rt.subscribers[s], effects[i]) THEN notify(rt, s, effects, i + 1)
  ELSE IF rt.schedule = "defer"
       THEN notify(pendingAdd(rt, effects[i], s), s, effects, i + 1)
       ELSE notify(effect(rt, effects[i], 1), s, effects, i + 1)

\* the body of a function an effect returned: a "readingFn" reads a signal;
\* the event holds the current effect at the read and the owner of the function
cleanupBody(rt, e) ==
  IF rt.eff[e].ret = "readingFn"
  THEN Emit(read(rt, rt.eff[e].cleanupReads),
            <<"cobs", rt.currentEffect, rt.eff[e].cleanupReads, e>>)
  ELSE rt

\* cleanup.forEach((c) => c()), in onClimax.effect and in the disposer: cs are
\* the indices of the functions in the array; a function that throws ends the
\* loop
runCleanups(rt, e, cs, i) ==
  IF i > Len(cs) THEN rt
  ELSE LET r == Emit([rt EXCEPT !.eff[e].inv[cs[i]] = IF @ < 2 THEN @ + 1 ELSE @],
                     <<"cleanup", e, cs[i], 0>>)
       IN IF rt.eff[e].ret = "throwingFn" THEN [r EXCEPT !.threw = TRUE]
          ELSE runCleanups(cleanupBody(r, e), e, cs, i + 1)

\* if (typeof result === "function") cleanup.push(result)
register(rt, e) ==
  IF rt.eff[e].ret = "none" THEN rt
  ELSE LET k == Len(rt.eff[e].inv) + 1
       IN Emit([rt EXCEPT !.eff[e].inv = Append(@, 0), !.eff[e].cleanup = Append(@, k)],
               <<"reg", e, k, 0>>)

\* variant: the catch block throws the error again
catchRethrow(rt, e) == [rt EXCEPT !.eff[e].threw = rt.threw]

\* catch (err) { console.error("Effect error:", err) }
catchErr(rt, e) ==
  IF rt.threw
  THEN Emit([rt EXCEPT !.threw = FALSE, !.eff[e].threw = TRUE], <<"caught", e, 0, 0>>)
  ELSE [rt EXCEPT !.eff[e].threw = FALSE]

\* variant: the stack is popped only when the try block returned
finallyOnReturn(rt, e) ==
  LET stk == IF rt.eff[e].threw THEN rt.effectStack
             ELSE SubSeq(rt.effectStack, 1, Len(rt.effectStack) - 1)
      r == [rt EXCEPT !.effectStack = stk,
                      !.currentEffect = IF Len(stk) = 0 THEN NoEffect ELSE stk[Len(stk)]]
  IN Emit(Emit(r, <<"end", e, 0, 0>>), <<"pop", e, Len(r.effectStack), r.currentEffect>>)

\* finally { effectStack.pop(); currentEffect = effectStack[length - 1] || null }
finallyPop(rt, e) ==
  LET stk == SubSeq(rt.effectStack, 1, Len(rt.effectStack) - 1)
      r == [rt EXCEPT !.effectStack = stk,
                      !.currentEffect = IF Len(stk) = 0 THEN NoEffect ELSE stk[Len(stk)]]
  IN Emit(Emit(r, <<"end", e, 0, 0>>), <<"pop", e, Len(r.effectStack), r.currentEffect>>)

\* variant: the cleanups run before the effect pushes itself
effectCleanupFirst(rt, e, cause) ==
  IF rt.eff[e].disposed THEN rt
  ELSE LET top == IF rt.effectStack = <<>> THEN NoEffect
                  ELSE rt.effectStack[Len(rt.effectStack)]
           r0 == runCleanups(rt, e, rt.eff[e].cleanup, 1)
           r1 == [r0 EXCEPT !.effectStack = Append(@, e), !.currentEffect = e,
                            !.eff[e].seen = {}, !.eff[e].bodyThrew = FALSE]
           r2 == Emit(r1, <<"run", e, cause, rt.drainLvl>>)
           r4 == IF r2.threw THEN r2
                 ELSE runBody(Emit([r2 EXCEPT !.eff[e].cleanup = <<>>], <<"body", e, 0, 0>>), e)
           r5 == IF r4.threw THEN r4 ELSE register(r4, e)
       IN Emit(finallyPop(catchErr(r5, e), e), <<"frame", e, Len(rt.effectStack), top>>)

\* the closure `effect` of onClimax; cause: 0 construction, 1 direct from a
\* write, 2 called by the drain loop of batch
effect(rt, e, cause) ==
  IF rt.eff[e].disposed THEN rt
  ELSE LET top == IF rt.effectStack = <<>> THEN NoEffect
                  ELSE rt.effectStack[Len(rt.effectStack)]
           r1 == [rt EXCEPT !.effectStack = Append(@, e), !.currentEffect = e,
                            !.eff[e].seen = {}, !.eff[e].bodyThrew = FALSE]
           r2 == Emit(r1, <<"run", e, cause, rt.drainLvl>>)
           r3 == runCleanups(r2, e, r2.eff[e].cleanup, 1)
           r4 == IF r3.threw THEN r3
                 ELSE runBody(Emit([r3 EXCEPT !.eff[e].cleanup = <<>>], <<"body", e, 0, 0>>), e)
           r5 == IF r4.threw THEN r4 ELSE register(r4, e)
       IN \* "frame": the stack depth and the stack top the call started with
          Emit(finallyPop(catchErr(r5, e), e), <<"frame", e, Len(rt.effectStack), top>>)

\* variant: the disposer runs the cleanups and leaves the flag
disposeCleanupsOnly(rt, e) ==
  LET r2 == runCleanups(rt, e, rt.eff[e].cleanup, 1)
  IN IF r2.threw THEN r2 ELSE [r2 EXCEPT !.eff[e].cleanup = <<>>]

\* the disposer onClimax returns
dispose(rt, e) ==
  LET r1 == [rt EXCEPT !.eff[e].disposed = TRUE]
      r2 == runCleanups(r1, e, r1.eff[e].cleanup, 1)
  IN IF r2.threw THEN r2 ELSE [r2 EXCEPT !.eff[e].cleanup = <<>>]

\* a signal read made by fn inside untrack(fn), called by effect e; the event
\* holds the current effect at the read
untrackRead(rt, e, s) == Emit(read(rt, s), <<"uobs", rt.currentEffect, s, e>>)

\* finally { currentEffect = prev }
untrackReturn(rt, e, prev) ==
  Emit([rt EXCEPT !.currentEffect = prev], <<"urestore", e, prev, 0>>)

\* untrack(() => { setOut(v); out() }): prev = currentEffect; currentEffect =
\* null; then fn, whose write has led to rt; then the read and the finally
untrackEnter(rt) == [rt EXCEPT !.currentEffect = NoEffect]
untrack(rt, e, prev, out) == untrackReturn(untrackRead(rt, e, out), e, prev)
\* after setOut(v) in the function of an effect: the rest of untrack when the
\* write was made inside it
writerBody(rt, e, kind, prev, out) ==
  IF kind = "untracker" THEN untrack(rt, e, prev, out) ELSE rt

\* the function passed to onClimax; for a memo the function knotMemo passes
runBody(rt, e) ==
  LET b == rt.eff[e]
      r0 == IF b.kind = "cond"
            THEN LET c == read(rt, b.reads[1])
                 IN IF rt.value[b.reads[1]] = 0 THEN read(c, b.reads[2]) ELSE c
            ELSE readAll(rt, b.reads, 1)
      result == Fn(b.fn, [i \in 1..Len(b.reads) |-> rt.value[b.reads[i]]])
      r1 == IF b.kind = "memo"
            THEN Emit(r0, <<"memo", e, IF b.initialized THEN 1 ELSE 0,
                            IF ObjectIs(result, b.cached) THEN 1 ELSE 0>>)
            ELSE r0
  IN CASE b.kind \in {"writer", "untracker"} ->
            writerBody(write(IF b.kind = "untracker" THEN untrackEnter(r1) ELSE r1,
                             b.out, result),
                       e, b.kind, rt.currentEffect, b.out)
       [] b.kind = "deps" -> depsBody(r1, e, NextFetchOf(r1.fetches))
       [] b.kind = "render" -> renderEffect(r1, e)
       [] b.kind = "selfDisposer" ->
            IF Fn("mod2", <<rt.value[b.reads[1]]>>) = 1 THEN dispose(r1, e) ELSE r1
       [] b.kind = "thrower" ->
            IF Fn("mod2", <<rt.value[b.reads[1]]>>) = 1
            THEN Emit([r1 EXCEPT !.threw = TRUE, !.eff[e].bodyThrew = TRUE],
                      <<"throw", e, 0, 0>>)
            ELSE r1
       [] b.kind = "memo" ->
            IF memoChanged(b.initialized, result, b.cached)
            THEN LET r2 == [r1 EXCEPT !.eff[e].cached = result]
                     prev == r2.currentEffect
                     \* untrack(() => batch(() => setSignal(result)))
                     r3 == batchExit(write(batchEnter([r2 EXCEPT !.currentEffect = NoEffect]),
                                           b.out, result),
                                     r2.schedule)
                 IN IF r3.threw THEN [r3 EXCEPT !.currentEffect = prev]
                    ELSE [r3 EXCEPT !.currentEffect = prev, !.eff[e].initialized = TRUE]
            ELSE r1
       [] OTHER -> r1

\* e(): an element of the pending set is an effect closure or a function user
\* code handed to batch.schedule
callItem(rt, x, cause) ==
  IF x \in UserFns THEN Emit(rt, <<"call", x, cause, rt.drainLvl>>)
  ELSE effect(rt, x, cause)

\* for (const e of effects) e(); an exception leaves the loop
drain(rt, effects, i) ==
  IF i > Len(effects) \/ rt.threw THEN rt
  ELSE drain(callItem(rt, effects[i], 2), effects, i + 1)

\* variant: batch.schedule always calls fn at once
batchScheduleDirect(rt, f) == callItem(rt, f, 1)

\* batch.schedule = (fn) => { if (batchDepth > 0) pending.add(fn); else fn() }
batchSchedule(rt, f) ==
  IF rt.batchDepth > 0 THEN pendingAdd(rt, f, 0) ELSE callItem(rt, f, 1)

\* variant: batch has no finally block, a throwing fn skips the restoring
\* statements
batchExitOnReturn(rt, prev) ==
  IF rt.threw THEN rt
  ELSE LET r1 == [rt EXCEPT !.schedule = prev, !.batchDepth = @ - 1]
       IN IF r1.batchDepth = 0
          THEN LET r2 == drain([r1 EXCEPT !.pending = NullPending, !.drainLvl = @ + 1,
                                          !.threw = FALSE],
                               r1.pending.items, 1)
               IN [r2 EXCEPT !.drainLvl = @ - 1, !.threw = r2.threw \/ rt.threw]
          ELSE r1

\* the finally block of batch; it runs also while an exception thrown by fn
\* is in flight
batchExit(rt, prev) ==
  LET r1 == [rt EXCEPT !.schedule = prev, !.batchDepth = @ - 1]
  IN IF r1.batchDepth = 0
     THEN LET r2 == drain([r1 EXCEPT !.pending = NullPending, !.drainLvl = @ + 1,
                                     !.threw = FALSE],
                          r1.pending.items, 1)
          IN [r2 EXCEPT !.drainLvl = @ - 1, !.threw = r2.threw \/ rt.threw]
     ELSE r1

\* variant: the constructor calls effect() without batch
onClimaxUnbatched(rt, e) == effect(rt, e, 0)

\* batch(effect), as called by onClimax
onClimax(rt, e) == batchExit(effect(batchEnter(rt), e, 0), rt.schedule)



\* ---- user code: the calls a program makes on the runtime -----------------
Obs(reads) == [NoBody EXCEPT !.created = TRUE, !.kind = "obs", !.reads = reads]
Writer(from, to) ==
  [NoBody EXCEPT !.created = TRUE, !.kind = "writer", !.reads = <<from>>, !.out = to]
Memo(e, f, reads) ==
  [NoBody EXCEPT !.created = TRUE, !.kind = "memo", !.fn = f, !.reads = reads,
                 !.out = OutSig(e)]

\* () => { if (a() === 0) b() }
Cond(a, b) == [NoBody EXCEPT !.created = TRUE, !.kind = "cond", !.reads = <<a, b>>]
\* the effect loadShot constructs when it is given a dependency accessor that
\* reads the signals `reads`
Deps(reads) == [NoBody EXCEPT !.created = TRUE, !.kind = "deps", !.reads = reads]
\* a function that reads its signals and throws when the first one is odd
Thrower(reads) == [NoBody EXCEPT !.created = TRUE, !.kind = "thrower", !.reads = reads]
\* () => { if (a() % 2 === 1) disposeSelf() }, disposeSelf being the disposer
\* onClimax returned for this effect
SelfDisposer(reads) ==
  [NoBody EXCEPT !.created = TRUE, !.kind = "selfDisposer", !.reads = reads]
\* () => { const v = from(); untrack(() => { setTo(v); to() }) }
Untracker(from, to) ==
  [NoBody EXCEPT !.created = TRUE, !.kind = "untracker", !.reads = <<from>>, !.out = to]
\* the same function, returning a function ("fn") or a function that throws
\* when called ("throwingFn")
Returning(b, ret) == [b EXCEPT !.ret = ret]
\* the same function, returning a function that reads signal s
ReturningReader(b, s) == [b EXCEPT !.ret = "readingFn", !.cleanupReads = s]

\* the programs user code is drawn from: the effects and memos it constructs,
\* in construction order (slot e of a program is effect e)
Programs ==
  { <<Obs(<<1, 2>>), Obs(<<1>>), Obs(<<2>>)>>,
    <<Obs(<<2>>), Obs(<<1>>), Obs(<<1, 2>>)>>,
    <<Writer(1, 2), Obs(<<2>>), Obs(<<1>>)>>,
    <<Obs(<<2>>), Writer(1, 2), Obs(<<1, 2>>)>> }

\* programs with memos: parity memo with readers, two memos of one source
\* read by one effect, a memo of two memos, a memo of two signals
MemoPrograms ==
  { <<Memo(1, "mod2", <<1>>), Obs(<<OutSig(1)>>), Obs(<<2, OutSig(1)>>)>>,
    <<Memo(1, "id", <<1>>), Memo(2, "mod2", <<1>>), Obs(<<OutSig(1), OutSig(2)>>)>>,
    <<Memo(1, "id", <<1>>), Memo(2, "id", <<1>>), Memo(3, "sum", <<OutSig(1), OutSig(2)>>)>>,
    <<Memo(1, "sum", <<1, 2>>), Obs(<<OutSig(1)>>)>> }

\* programs with cleanups, throwing functions, conditional reads and nested runs
LifePrograms ==
  { <<Writer(1, 2), Thrower(<<2>>)>>,
    <<Returning(Thrower(<<1>>), "fn")>>,
    <<Returning(Obs(<<1>>), "throwingFn")>>,
    <<Cond(1, 2)>> }

\* the argument of a setter: a literal or an updater function
Nexts == {<<"lit", v>> : v \in 0..MaxVal} \cup {<<"fn", f>> : f \in {"inc", "mod2"}}
\* variant: the updater is applied to the value the signal was created with
CandidateOfInitial(next, cur) == IF next[1] = "fn" THEN Fn(next[2], <<0>>) ELSE next[2]

\* typeof next === "function" ? next(value) : next
Candidate(next, cur) == IF next[1] = "fn" THEN Fn(next[2], <<cur>>) ELSE next[2]

SchedOf(lg) ==
  LET top == SelectSeq(lg, LAMBDA ev : ev[1] = "sched" /\ ev[4] = 0)
  IN [i \in 1..Len(top) |-> <<top[i][2], batchDepth>>]

Install(r, op) ==
  /\ value' = r.value
  /\ subscribers' = r.subscribers
  /\ currentEffect' = r.currentEffect
  /\ effectStack' = r.effectStack
  /\ batchDepth' = r.batchDepth
  /\ pending' = r.pending
  /\ schedule' = r.schedule
  /\ eff' = r.eff
  /\ res' = r.res
  /\ fetches' = r.fetches
  /\ mnt' = r.mnt
  /\ UNCHANGED tvars
  /\ log' = IF r.threw THEN Append(r.log, <<"uncaught", 0, 0, 0>>) ELSE r.log
  /\ lastOp' = op

Op(name, s, old, cand) ==
  [op |-> name, s |-> s, old |-> old, cand |-> cand, depth |-> batchDepth,
   pend |-> pending.items,
   subs |-> IF name \in {"write", "writeFn"} THEN subscribers[s] ELSE <<>>,
   cln |-> IF name = "dispose" THEN eff[s].cleanup ELSE <<>>,
   mpre |-> mnt,
   disposedPre |-> {e \in Eff : eff[e].released},
   threwPre |-> {e \in Eff : eff[e].bodyThrew}]

\* the most fetches one user call starts in the programs below (a dependency
\* effect runs at most twice in one call)
FetchesPerCall == 2

NoIncRun == [s |-> 0, base |-> 0, k |-> 0]
\* the run of increments after one more user call: name and signal of the call
IncRunAfter(name, fn, s) ==
  IF batchDepth = 0 THEN NoIncRun
  ELSE IF name = "writeFn" /\ fn = "inc" /\ opsInBatch = 0
       THEN [s |-> s, base |-> value[s], k |-> 1]
  ELSE IF name = "writeFn" /\ fn = "inc" /\ incRun.k > 0 /\ incRun.s = s
       THEN [incRun EXCEPT !.k = @ + 1]
  ELSE NoIncRun

InBudget ==
  /\ batchDepth = 0 \/ opsInBatch < MaxOps
  /\ NextFetchOf(fetches) + FetchesPerCall <= MaxFetch + 1
  /\ \A e \in Eff : Len(eff[e].inv) < MaxRegs

RInitWith(progs) ==
  /\ prog \in progs
  /\ value = [s \in Sig |-> IF s \in UserSig THEN 0 ELSE Undefined]
  /\ subscribers = [s \in Sig |-> <<>>]
  /\ currentEffect = NoEffect
  /\ effectStack = <<>>
  /\ batchDepth = 0
  /\ pending = NullPending
  /\ schedule = "null"
  /\ eff = [e \in Eff |-> NoBody]
  /\ created = 0
  /\ prevStack = <<>>
  /\ opsInBatch = 0
  /\ incRun = NoIncRun
  /\ log = <<>>
  /\ lastOp = [op |-> "init", s |-> 0, old |-> 0, cand |-> 0, depth |-> 0, pend |-> <<>>,
               subs |-> <<>>, cln |-> <<>>, mpre |-> NoMount, disposedPre |-> {},
               threwPre |-> {}]
  /\ schedLog = <<>>

\* user code calls onClimax(fn) or knotMemo(fn)
CreateEffect ==
  /\ created < Len(prog)
  /\ InBudget
  /\ LET e == created + 1
         r == onClimax([RT EXCEPT !.eff[e] = prog[e]], e)
     IN /\ Install(r, Op("create", e, 0, 0))
        /\ schedLog' = IF batchDepth > 0 THEN schedLog \o SchedOf(log') ELSE <<>>
  /\ created' = created + 1
  /\ opsInBatch' = IF batchDepth > 0 THEN opsInBatch + 1 ELSE 0
  /\ incRun' = IncRunAfter("create", "none", 0)
  /\ UNCHANGED <<prog, prevStack, settled, queued, rlog, rop, hvars, evars, lvars>>

\* user code calls the setter of one of its signals
Write ==
  /\ InBudget
  /\ \E s \in UserSig, next \in Nexts :
       LET cand == Candidate(next, value[s])
           r == write(RT, s, cand)
       IN /\ cand \in 0..MaxVal
          /\ Install(r, Op(IF next[1] = "fn" THEN "writeFn" ELSE "write", s, value[s], cand))
          /\ schedLog' = IF batchDepth > 0 THEN schedLog \o SchedOf(log') ELSE <<>>
          /\ incRun' = IncRunAfter(IF next[1] = "fn" THEN "writeFn" ELSE "write", next[2], s)
  /\ opsInBatch' = IF batchDepth > 0 THEN opsInBatch + 1 ELSE 0
  /\ UNCHANGED <<prog, created, prevStack, settled, queued, rlog, rop, hvars, evars, lvars>>

\* user code calls batch(fn): the statements of batch before fn runs
BatchEnter ==
  /\ batchDepth < MaxDepth
  /\ Install(batchEnter(RT), Op("enter", 0, 0, 0))
  /\ prevStack' = <<schedule>> \o prevStack
  /\ schedLog' = IF batchDepth = 0 THEN <<>> ELSE schedLog
  /\ opsInBatch' = IF batchDepth = 0 THEN 0 ELSE opsInBatch
  /\ incRun' = IF batchDepth = 0 THEN NoIncRun ELSE incRun
  /\ UNCHANGED <<prog, created, settled, queued, rlog, rop, hvars, evars, lvars>>

\* fn returns: the finally block of batch, with the drain at the outermost exit
BatchExit ==
  /\ prevStack # <<>>
  /\ Install(batchExit(RT, Head(prevStack)), Op("exit", 0, 0, 0))
  /\ prevStack' = Tail(prevStack)
  /\ UNCHANGED <<prog, created, opsInBatch, schedLog, incRun, settled, queued, rlog, rop, hvars, evars, lvars>>

\* fn throws: the finally block of batch runs with the exception in flight,
\* which then leaves batch
BatchThrow ==
  /\ prevStack # <<>>
  /\ Install(batchExit([RT EXCEPT !.threw = TRUE], Head(prevStack)),
             [Op("exitThrow", 0, 0, 0) EXCEPT !.subs = <<Head(prevStack)>>])
  /\ prevStack' = Tail(prevStack)
  /\ UNCHANGED <<prog, created, opsInBatch, schedLog, incRun, settled, queued, rlog, rop, hvars, evars, lvars>>

\* user code calls the disposer of one of its effects
DisposeEffect ==
  /\ InBudget
  /\ \E e \in 1..created :
       LET r == dispose(RT, e)
       IN /\ Install([r EXCEPT !.eff[e].released = TRUE], Op("dispose", e, 0, 0))
          /\ schedLog' = IF batchDepth > 0 THEN schedLog ELSE <<>>
  /\ opsInBatch' = IF batchDepth > 0 THEN opsInBatch + 1 ELSE 0
  /\ incRun' = IncRunAfter("dispose", "none", 0)
  /\ UNCHANGED <<prog, created, prevStack, settled, queued, rlog, rop, hvars, evars, lvars>>

\* user code calls batch.schedule(fn) with one of its plain functions
Schedule ==
  /\ InBudget
  /\ \E f \in UserFns :
       LET r == batchSchedule(RT, f)
       IN /\ Install(r, Op("schedule", f, 0, 0))
          /\ schedLog' = IF batchDepth > 0 THEN schedLog \o SchedOf(log') ELSE <<>>
  /\ opsInBatch' = IF batchDepth > 0 THEN opsInBatch + 1 ELSE 0
  /\ incRun' = IncRunAfter("schedule", "none", 0)
  /\ UNCHANGED <<prog, created, prevStack, settled, queued, rlog, rop, hvars, evars, lvars>>

RNext == CreateEffect \/ Write \/ BatchEnter \/ BatchExit



(***************************************************************************)
(* Properties of the reactive core                                         *)
(***************************************************************************)
LogIdx == 1..Len(log)
IsRun(i, e) == log[i][1] = "run" /\ log[i][2] = e
Runs(e) == Cardinality({i \in LogIdx : IsRun(i, e)})
\* runs of e that are not the direct, synchronous consequence of a write
ScheduledRuns(e) == Cardinality({i \in LogIdx : IsRun(i, e) /\ log[i][3] # 1})
\* the effects the drain loop of the outermost batch called, in call order
DrainOrder ==
  LET calls == SelectSeq(log, LAMBDA ev : ev[1] = "run" /\ ev[3] = 2 /\ ev[4] = 1)
  IN [i \in 1..Len(calls) |-> calls[i][2]]
SchedEffects == [i \in 1..Len(schedLog) |-> schedLog[i][1]]
OutermostExit == lastOp.op = "exit" /\ batchDepth = 0
WriteInDrain == \E i \in LogIdx : log[i][1] = "set" /\ log[i][3] # log[i][4]

C2_EqualWriteIsSilent ==
  (lastOp.op \in {"write", "writeFn"} /\ lastOp.cand = lastOp.old) =>
     /\ value[lastOp.s] = lastOp.old
     /\ \A i \in LogIdx : log[i][1] \notin {"run", "sched"}
     /\ pending.items = lastOp.pend

\* an updater returned the current value of a signal that has subscribers,
\* inside a batch
C2_Witness ==
  /\ lastOp.op = "writeFn"
  /\ lastOp.cand = lastOp.old
  /\ lastOp.depth > 0
  /\ subscribers[lastOp.s] # <<>>

\* C3: in the drain of the outermost exit every effect of the pending set
\* executes exactly once, also when an effect run earlier in the drain writes
\* a signal a waiting effect subscribes to.
C3_DrainRunsEachOnce ==
  OutermostExit => \A e \in Range(SchedEffects) : Runs(e) = 1

Observed(e, s) ==
  {log[i][4] : i \in {j \in LogIdx : log[j][1] = "obs" /\ log[j][2] = e /\ log[j][3] = s}}

FnCalls(f) == Cardinality({i \in LogIdx : log[i][1] = "call" /\ log[i][2] = f})
C30_ScheduleEntryPoint ==
  /\ (lastOp.op = "schedule" /\ lastOp.depth > 0) =>
       /\ FnCalls(lastOp.s) = 0
       /\ Has(pending.items, lastOp.s)
       /\ Cardinality({i \in 1..Len(pending.items) : pending.items[i] = lastOp.s}) = 1
  /\ (lastOp.op = "schedule" /\ lastOp.depth = 0) =>
       /\ FnCalls(lastOp.s) = 1
       /\ pending = NullPending
  /\ batchDepth > 0 => \A f \in UserFns : FnCalls(f) = 0
  /\ OutermostExit =>
       \A f \in UserFns : FnCalls(f) = (IF Has(SchedEffects, f) THEN 1 ELSE 0)

\* a function scheduled twice in one batch, at two depths, has been called
\* once by the outermost exit
C30_Witness ==
  /\ OutermostExit
  /\ \E f \in UserFns :
       /\ \E i, j \in 1..Len(schedLog) : i # j /\ schedLog[i][1] = f /\ schedLog[j][1] = f
       /\ FnCalls(f) = 1

\* outside a batch the function ran inside the call of batch.schedule
C30_WitnessDirect ==
  lastOp.op = "schedule" /\ lastOp.depth = 0 /\ FnCalls(lastOp.s) = 1


\* ---- memos ---------------------------------------------------------------
MemoSig == Sig \ UserSig
SigChanged(i) == log[i][1] = "set" /\ log[i][3] # log[i][4]
\* the value of a signal when every memo is computed from the current values
\* of the user signals
RECURSIVE Denot(_)
Denot(s) ==
  IF s \in UserSig THEN value[s]
  ELSE LET b == prog[s - Cardinality(UserSig)]
       IN Fn(b.fn, [i \in 1..Len(b.reads) |-> Denot(b.reads[i])])
ReadsOnlyMemos(e) ==
  /\ eff[e].created /\ eff[e].kind = "obs"
  /\ Range(eff[e].reads) \subseteq MemoSig

\* C6: when a memo's effect re-runs and the derivation returns a value
\* Object.is-equal to the cached one, the memo's effect ends without calling
\* the setter of the output signal, and an effect that reads only memos runs
\* (after its construction) only in a call in which a memo it reads changed.
C6_MemoUnchangedIsSilent ==
  /\ \A i \in LogIdx :
       (log[i][1] = "memo" /\ log[i][3] = 1 /\ log[i][4] = 1) =>
          (i < Len(log) /\ log[i + 1] = <<"end", log[i][2], 0, 0>>)
  /\ \A e \in Eff :
       (ReadsOnlyMemos(e) /\ \E i \in LogIdx : IsRun(i, e) /\ log[i][3] # 0) =>
          \E j \in LogIdx : SigChanged(j) /\ log[j][2] \in Range(eff[e].reads)

\* a write changed the source of an initialised memo, the memo's effect re-ran
\* with an unchanged result, and the effect reading the memo did not run
C6_Witness ==
  /\ lastOp.op \in {"write", "writeFn"} /\ lastOp.cand # lastOp.old /\ lastOp.depth = 0
  /\ \E i \in LogIdx : log[i][1] = "memo" /\ log[i][3] = 1 /\ log[i][4] = 1
  /\ \E e \in Eff : ReadsOnlyMemos(e) /\ Runs(e) = 0

\* C7: batch coherence - in the drain of a batch every value an effect reads
\* from a memo is the memo's derivation of the current source values.
C7_BatchCoherence ==
  OutermostExit =>
    \A i \in LogIdx :
      (log[i][1] = "obs" /\ log[i][3] \in MemoSig /\ log[i][2] # NoEffect
         /\ eff[log[i][2]].kind = "obs") =>
        log[i][4] = Denot(log[i][3])

\* C8: per outermost batch the value of a memo accessor changes at most once
\* and only to the derivation of the current source values.
C8_MemoChangesOnce ==
  OutermostExit =>
    \A s \in MemoSig :
      /\ Cardinality({i \in LogIdx : SigChanged(i) /\ log[i][2] = s}) <= 1
      /\ \A i \in LogIdx : (SigChanged(i) /\ log[i][2] = s) => log[i][4] = Denot(s)


\* ---- effect lifecycle -----------------------------------------------------
IsEv(i, what, e) == log[i][1] = what /\ log[i][2] = e
\* the k-th function effect e returned is still in its cleanup array
Outstanding(e, k) == Has(eff[e].cleanup, k)

\* C12: the functions an effect has returned are called in registration order;
\* a function registered by a run has been called exactly once before the body
\* of the next run executes and is then discarded: a function that is still in
\* the cleanup array has not been called, one that is no longer there has been
\* called exactly once.
C12_CleanupsRunOnceInOrder ==
  /\ \A e \in Eff :
       \A k \in 1..Len(eff[e].inv) :
         eff[e].inv[k] = (IF Outstanding(e, k) THEN 0 ELSE 1)
  /\ \A e \in Eff, i, j \in LogIdx :
       (i < j /\ IsEv(i, "cleanup", e) /\ IsEv(j, "cleanup", e)) => log[i][3] < log[j][3]
  /\ \A e \in Eff, i, j \in LogIdx :
       (i < j /\ IsEv(i, "reg", e) /\ IsEv(j, "body", e)) =>
          \E c \in (i + 1)..(j - 1) : IsEv(c, "cleanup", e) /\ log[c][3] = log[i][3]


Threw(e) == \E i \in LogIdx : IsEv(i, "throw", e)
BodyRan(e) == \E i \in LogIdx : IsEv(i, "body", e)
ChangingWrite == lastOp.op \in {"write", "writeFn"} /\ lastOp.cand # lastOp.old

\* C13: an exception thrown by an effect body is caught in the effect: the
\* constructor call, setter call or batch exit that ran the effect returns
\* normally, the effect is a subscriber of every signal it read, the effects
\* after it in the drain are still called, and the next write that changes one
\* of its signals executes its body again.
C13_BodyErrorIsContained ==
  /\ lastOp.op \in {"create", "write", "writeFn", "exit"} =>
       \A i \in LogIdx : log[i][1] # "uncaught"
  /\ \A i \in LogIdx :
       log[i][1] = "throw" =>
         /\ i < Len(log) /\ log[i + 1] = <<"caught", log[i][2], 0, 0>>
         /\ \A s \in Range(eff[log[i][2]].reads) : Has(subscribers[s], log[i][2])
  /\ OutermostExit =>
       \A e \in Range(SchedEffects) : ~eff[e].disposed => Runs(e) >= 1
  /\ (ChangingWrite /\ lastOp.depth = 0) =>
       \A e \in Range(lastOp.subs) \cap lastOp.threwPre :
         e \notin lastOp.disposedPre => BodyRan(e)

\* in the drain of a batch an effect threw and an effect scheduled after it
\* was run
C13_Witness ==
  /\ OutermostExit
  /\ \E i, j \in LogIdx :
       /\ i < j
       /\ log[i][1] = "throw"
       /\ log[j][1] = "run" /\ log[j][3] = 2 /\ log[j][2] # log[i][2]

\* after its previous run threw, an effect was run again by a write and its
\* body returned normally
C13_WitnessRetry ==
  /\ ChangingWrite /\ lastOp.depth = 0
  /\ \E e \in Range(lastOp.subs) \cap lastOp.threwPre : BodyRan(e) /\ ~Threw(e)


CleanupCalls(e) ==
  LET evs == SelectSeq(log, LAMBDA ev : ev[1] = "cleanup" /\ ev[2] = e)
  IN [i \in 1..Len(evs) |-> evs[i][3]]

\* C14: once the disposer of an effect has been called, no later call runs
\* the effect (no cleanup, no body), also when it was in the pending set of an
\* open batch; the disposer call itself calls each function that was in the
\* cleanup array once, in order, and empties the array when it returns.
C14_DisposedNeverRuns ==
  /\ \A e \in lastOp.disposedPre :
       \A i \in LogIdx : lastOp.op # "dispose" => ~(log[i][2] = e /\ log[i][1] \in
                            {"run", "body", "cleanup", "reg"})
  /\ lastOp.op = "dispose" =>
       /\ CleanupCalls(lastOp.s) = lastOp.cln
       /\ \A i \in LogIdx : log[i][1] \in {"cleanup", "uncaught"}
       /\ (\A i \in LogIdx : log[i][1] # "uncaught") => eff[lastOp.s].cleanup = <<>>

\* an effect that was in the pending set was disposed inside the batch: its
\* function was called by the disposer and the drain did not run the effect
C14_Witness ==
  /\ OutermostExit
  /\ \E e \in Range(SchedEffects) \cap lastOp.disposedPre :
       /\ Runs(e) = 0
       /\ eff[e].inv = <<1>>
       /\ eff[e].cleanup = <<>>


\* the construction run of the effect built by the last call: its "run" and
\* "end" events
InitialRun(i, j) ==
  /\ lastOp.op = "create"
  /\ i < j
  /\ log[i] = <<"run", lastOp.s, 0, 0>>
  /\ IsEv(j, "end", lastOp.s)
  /\ \A k \in (i + 1)..(j - 1) : ~IsEv(k, "end", lastOp.s)

\* C15: the constructor runs the effect's function once, synchronously, at
\* any batch depth; it is the first effect to run in the call, no other effect
\* runs before it has finished, and the subscribers its writes scheduled run
\* afterwards: in the drain of the constructor's own batch when no batch was
\* open, not before the enclosing batch ends otherwise.
C15_ConstructionRunsOnce ==
  lastOp.op = "create" =>
    /\ Cardinality({i \in LogIdx : IsRun(i, lastOp.s) /\ log[i][3] = 0}) = 1
    /\ \E i, j \in LogIdx :
         /\ InitialRun(i, j)
         /\ \A k \in 1..(j - 1) : log[k][1] = "run" => k = i
         /\ \A k \in (i + 1)..(j - 1) :
              log[k][1] = "sched" =>
                IF lastOp.depth = 0
                THEN \E m \in (j + 1)..Len(log) : IsRun(m, log[k][2]) /\ log[m][3] = 2
                ELSE Has(pending.items, log[k][2]) /\ Runs(log[k][2]) = 0

\* with no batch open, the function of the new effect changed a signal that
\* has a subscriber, and the subscriber ran after the function had finished
C15_Witness ==
  /\ lastOp.depth = 0
  /\ \E i, j \in LogIdx :
       /\ InitialRun(i, j)
       /\ \E k \in (i + 1)..(j - 1), m \in (j + 1)..Len(log) :
            /\ log[k][1] = "sched"
            /\ IsRun(m, log[k][2])

\* the same inside an open batch: the subscriber is left in the pending set
C15_WitnessInBatch ==
  /\ lastOp.depth > 0
  /\ \E i, j \in LogIdx :
       /\ InitialRun(i, j)
       /\ \E k \in (i + 1)..(j - 1) :
            log[k][1] = "sched" /\ Has(pending.items, log[k][2]) /\ Runs(log[k][2]) = 0


\* C16: when a run of an effect ends, by return or by a caught exception, at
\* any nesting, the effect stack has the depth it had when the run started and
\* currentEffect is the effect on top of the stack, or null when the stack is
\* empty; between user calls the stack is empty.
C16_StackRestored ==
  /\ effectStack = <<>> /\ currentEffect = NoEffect
  /\ \A i \in LogIdx :
       log[i][1] = "frame" =>
         i > 1 /\ log[i - 1] = <<"pop", log[i][2], log[i][3], log[i][4]>>

\* a run nested in the run of another effect ended in the catch block
C16_Witness ==
  \E i \in LogIdx :
    /\ log[i][1] = "frame" /\ log[i][3] = 1 /\ log[i][4] # NoEffect
    /\ i > 3 /\ log[i - 3] = <<"caught", log[i][2], 0, 0>>


SubscribedTo(e) == {s \in Sig : Has(subscribers[s], e)}

\* C17: after a run of an effect the signals whose subscriber sets contain the
\* effect are exactly the signals that run read, and an effect whose disposer
\* has been called is in no subscriber set.
C17_SubscriptionsAreExact ==
  \A e \in Eff :
    eff[e].created =>
      SubscribedTo(e) = (IF eff[e].released THEN {} ELSE eff[e].seen)

\* the same for effects that were never disposed and whose latest run executed
\* the function to its end
C17_LiveSubscriptionsAreExact ==
  \A e \in Eff :
    (eff[e].created /\ ~eff[e].released /\ ~eff[e].threw) => SubscribedTo(e) = eff[e].seen


\* the signals the function of effect e reads
BodyReads(e) == {eff[e].reads[i] : i \in 1..Len(eff[e].reads)}

\* C32: the functions an effect returned are called while the effect is not
\* the current effect, so a signal read by such a function does not subscribe
\* the effect: an effect is a subscriber only of signals its function reads
C32_CleanupBeforePush ==
  /\ \A i \in LogIdx : log[i][1] = "cobs" => log[i][2] # log[i][4]
  /\ \A e \in Eff :
       eff[e].ret = "readingFn" =>
         \A s \in Sig : Has(subscribers[s], e) => s \in BodyReads(e)

\* C33: a read made by fn inside untrack(fn) finds no current effect, so the
\* effect that called untrack is a subscriber only of the signals it reads
\* outside untrack; when untrack returns the current effect is the effect
\* that called it
C33_UntrackedReads ==
  /\ \A i \in LogIdx : log[i][1] = "uobs" => log[i][2] = NoEffect
  /\ \A e \in Eff :
       eff[e].kind = "untracker" =>
         \A s \in Sig : Has(subscribers[s], e) => s \in BodyReads(e)
  /\ \A i \in LogIdx :
       log[i][1] = "urestore" => log[i][3] = log[i][2]

\* C36: when the disposer of an effect has been called, every function still
\* in the effect's cleanup array has been called
C36_NoCleanupLeftAfterDispose ==
  \A e \in Eff :
    eff[e].disposed =>
      \A k \in 1..Len(eff[e].inv) : Outstanding(e, k) => eff[e].inv[k] >= 1

\* C35: when fn throws, the exception leaves batch; the depth is one less
\* than inside fn and schedule is what it was before the call; at the
\* outermost level the pending set is dropped and every effect in it has run,
\* at an inner level nothing runs and the pending set is kept.  At depth 0
\* schedule is null, so a write that changes a signal runs its subscribers
\* before it returns
C35_ThrowingBatch ==
  /\ lastOp.op = "exitThrow" =>
       /\ log # <<>> /\ log[Len(log)][1] = "uncaught"
       /\ batchDepth = lastOp.depth - 1
       /\ schedule = lastOp.subs[1]
       /\ batchDepth = 0 =>
            /\ pending = NullPending
            /\ \A e \in Eff : (Has(lastOp.pend, e) /\ ~eff[e].disposed) => Runs(e) >= 1
       /\ batchDepth > 0 =>
            /\ pending.items = lastOp.pend
            /\ \A i \in LogIdx : log[i][1] # "run"
  /\ batchDepth = 0 => schedule = "null"
  /\ (lastOp.op \in {"write", "writeFn"} /\ lastOp.depth = 0 /\ SigChanged(1)) =>
       \A e \in Eff :
         (Has(lastOp.subs, e) /\ ~eff[e].disposed) =>
           \E i \in LogIdx : IsRun(i, e) /\ log[i][3] = 1

\* fn threw in the outermost batch after a write had scheduled an effect; the
\* exception left batch and the effect ran
C35_Witness ==
  /\ lastOp.op = "exitThrow" /\ batchDepth = 0
  /\ log[Len(log)][1] = "uncaught"
  /\ schedule = "null"
  /\ \E e \in Eff : Has(lastOp.pend, e) /\ Runs(e) = 1

(***************************************************************************)
(* Part II - reactivity.js : loadShot (async resource)                     *)
(***************************************************************************)
\* loadShot(fetcher, deps, initialValue) has returned; without deps (q) the
\* first refetch waits in the microtask queue
ResInitWith(q) ==
  /\ res = [data |-> Null, loading |-> FALSE, error |-> Null, controller |-> Null]
  /\ fetches = [k \in FetchId |-> NoFetch]
  /\ settled = <<>>
  /\ queued = q
  /\ rlog = <<>>
  /\ rop = [op |-> "init", k |-> 0, pre |-> res]
ResInit == ResInitWith(TRUE)
\* no resource has been constructed
ResIdle == ResInitWith(FALSE)

Started == {k \in FetchId : fetches[k].state # "none"}
NextFetch == NextFetchOf(fetches)

\* user code calls refetch() and the fetcher returns a promise
Refetch ==
  /\ NextFetch <= MaxFetch
  /\ LET k == NextFetch
         c == refetch(res, fetches, k, "refetch")
     IN /\ res' = c.res
        /\ fetches' = c.fetches
        /\ rlog' = c.calls
        /\ rop' = [op |-> "refetch", k |-> k, pre |-> res]
  /\ UNCHANGED <<settled, queued, rvars, hvars, evars, lvars, mnt, tvars>>

\* refetch() when the fetcher throws synchronously: the catch and finally
\* blocks run before refetch returns
RefetchThrows ==
  /\ NextFetch <= MaxFetch
  /\ \E v \in Results :
       LET k == NextFetch
           c == refetch(res, fetches, k, "refetch")
           f == [c.fetches[k] EXCEPT !.state = "settled", !.outcome = "rejected", !.val = v]
           st == continuation([Call(c.res) EXCEPT !.calls = c.calls], f, "rejected", v)
       IN /\ res' = st.res
          /\ fetches' = [c.fetches EXCEPT ![k] = [f EXCEPT !.promise = st.promise]]
          /\ rlog' = st.calls
          /\ rop' = [op |-> "refetch", k |-> k, pre |-> res]
          /\ settled' = Append(settled, k)
  /\ UNCHANGED <<queued, rvars, hvars, evars, lvars, mnt, tvars>>

\* the microtask queued by the constructor runs refetch
Tick ==
  /\ queued
  /\ NextFetch <= MaxFetch
  /\ LET k == NextFetch
         c == refetch(res, fetches, k, "tick")
     IN /\ res' = c.res
        /\ fetches' = c.fetches
        /\ rlog' = c.calls
        /\ rop' = [op |-> "tick", k |-> k, pre |-> res]
  /\ queued' = microtask(queued)
  /\ UNCHANGED <<settled, rvars, hvars, evars, lvars, mnt, tvars>>

\* the promise of fetch k settles and the continuation of its refetch runs, as
\* a microtask: after the constructor's microtask, and not inside a batch
Settle ==
  /\ ~queued
  /\ batchDepth = 0
  /\ \E k \in FetchId, outcome \in {"fulfilled", "rejected"}, v \in Results :
       /\ fetches[k].state = "pending"
       /\ LET st == continuation(Call(res), fetches[k], outcome, v)
          IN /\ res' = st.res
             /\ rlog' = st.calls
             /\ fetches' = [fetches EXCEPT ![k].state = "settled", ![k].outcome = outcome,
                                           ![k].val = v, ![k].promise = st.promise]
       /\ settled' = Append(settled, k)
       /\ rop' = [op |-> "settle", k |-> k, pre |-> res]
  /\ UNCHANGED <<queued, rvars, hvars, evars, lvars, mnt, tvars>>

\* user code calls dispose()
Dispose ==
  /\ fetches' = resourceDispose(fetches, res.controller)
  /\ rlog' = <<>>
  /\ rop' = [op |-> "dispose", k |-> res.controller, pre |-> res]
  /\ UNCHANGED <<res, settled, queued, rvars, hvars, evars, lvars, mnt, tvars>>

ResNext == Tick \/ Refetch \/ RefetchThrows \/ Settle \/ Dispose

\* C5: the continuation of a fetch whose signal was aborted (superseded by a
\* later refetch) calls no setter; once every started fetch has settled and
\* the last-started one was not cancelled, loading is false and data / error
\* hold the outcome of the last-started fetch.
C5_SupersededFetchIsInert ==
  /\ (rop.op = "settle" /\ fetches[rop.k].aborted) => (rlog = <<>> /\ res = rop.pre)
  /\ (Started # {} /\ \A k \in Started : fetches[k].state = "settled") =>
       LET f == fetches[res.controller]
       IN ~f.aborted =>
            /\ res.loading = FALSE
            /\ f.outcome = "fulfilled" => (res.data = f.val /\ res.error = Null)
            /\ f.outcome = "rejected" => res.error = f.val

\* fetch 1 was superseded by fetch 2, fetch 2 was fulfilled first, fetch 1 was
\* fulfilled afterwards with another value
C5_Witness ==
  /\ rop.op = "settle" /\ rop.k = 1
  /\ settled = <<2, 1>>
  /\ res.controller = 2
  /\ fetches[1].outcome = "fulfilled" /\ fetches[2].outcome = "fulfilled"
  /\ fetches[1].val # fetches[2].val
  /\ res.data = fetches[2].val

\* the fetch the last resource operation was about
OpFetch == fetches[rop.k]
Rejected(k) == fetches[k].state = "settled" /\ fetches[k].outcome = "rejected"

\* C26: the promise refetch returns is never rejected; when the fetcher
\* rejected or threw and the fetch's signal is not aborted, error holds the
\* reason, loading is false and data is what it was; a call of refetch sets
\* error to null before the fetcher is called.
C26_RejectionSetsError ==
  /\ \A k \in FetchId :
       /\ fetches[k].promise # "rejected"
       /\ fetches[k].state = "settled" => fetches[k].promise = "fulfilled"
  /\ (rop.op \in {"settle", "refetch"} /\ Rejected(rop.k) /\ ~OpFetch.aborted) =>
       /\ res.error = OpFetch.val
       /\ res.loading = FALSE
       /\ res.data = rop.pre.data
  /\ rop.op \in {"refetch", "tick"} =>
       /\ Len(rlog) >= 2 /\ rlog[2] = <<"error", Null>>
       /\ OpFetch.state = "pending" => res.error = Null

\* a fetch that was not superseded was rejected while data held the result of
\* an earlier fetch
C26_Witness ==
  /\ rop.op = "settle" /\ Rejected(rop.k) /\ ~OpFetch.aborted
  /\ rop.pre.data # Null
  /\ res.error = OpFetch.val

\* a call of refetch reset the error signal
C26_WitnessReset ==
  rop.op = "refetch" /\ rop.pre.error # Null /\ res.error = Null

\* the fetch whose signal dispose aborted: it is still the current controller
Cancelled(k) == fetches[k].aborted /\ res.controller = k

\* C27: dispose aborts the signal of the fetch in flight and writes no signal;
\* when the cancelled fetch settles later its continuation calls no setter, so
\* data and error are what they were before dispose.
C27_DisposeKeepsData ==
  /\ rop.op = "dispose" =>
       /\ res = rop.pre
       /\ rop.k # Null => fetches[rop.k].aborted
  /\ (rop.op = "settle" /\ Cancelled(rop.k)) =>
       /\ rlog = <<>>
       /\ res.data = rop.pre.data /\ res.error = rop.pre.error

\* a fetch cancelled by dispose was fulfilled with a value other than the data
\* of an earlier fetch, which is still there
C27_Witness ==
  /\ rop.op = "settle" /\ Cancelled(rop.k)
  /\ OpFetch.outcome = "fulfilled"
  /\ res.data # Null /\ res.data # OpFetch.val

\* the fetches whose result the resource still waits for: started, not
\* settled, and their signal aborted neither by a later refetch nor by dispose
Awaited == {k \in Started : fetches[k].state = "pending" /\ ~fetches[k].aborted}

\* C34: loading is true exactly while a fetch that was neither superseded nor
\* cancelled is pending; when every started fetch has settled or was
\* cancelled, loading is false
C34_LoadingTracksFetch == res.loading <=> Awaited # {}

\* the fetches started by the constructor's microtask
ByTick == {k \in Started : fetches[k].by = "tick"}

\* C29: without a dependency accessor the constructor returns with the
\* fetcher not called and loading false; the microtask starts exactly one
\* fetch, before any settlement, and every other fetch was started by a call
\* of refetch.
C29_FirstFetchOnNextTick ==
  /\ rop.op = "init" => (Started = {} /\ res.loading = FALSE /\ queued)
  /\ Cardinality(ByTick) = (IF queued THEN 0 ELSE 1)
  /\ \A k \in Started : fetches[k].by \in {"tick", "refetch"}
  /\ queued => settled = <<>> \/ \A i \in 1..Len(settled) : fetches[settled[i]].by = "refetch"
  /\ rop.op = "tick" => (OpFetch.by = "tick" /\ res.loading = TRUE)

\* the microtask has run, its fetch has settled, and no other fetch started
C29_Witness ==
  /\ ~queued
  /\ Started = {1}
  /\ fetches[1].by = "tick" /\ fetches[1].state = "settled"
  /\ rop.op = "settle"

\* the effects loadShot built for a dependency accessor
DepsEffects == {e \in Eff : eff[e].created /\ eff[e].kind = "deps"}
\* the fetches effect e started during the last call, in order
FetchesBy(e) ==
  LET evs == SelectSeq(log, LAMBDA ev : ev[1] = "refetch" /\ ev[2] = e)
  IN [i \in 1..Len(evs) |-> evs[i][3]]
\* every started fetch but the newest has an aborted signal
NewestSupersedes ==
  Started # {} =>
    /\ res.controller = Cardinality(Started)
    /\ ~fetches[res.controller].aborted
    /\ \A k \in Started \ {res.controller} : fetches[k].aborted

\* C28: for a resource with a dependency accessor, a change of a signal the
\* accessor reads is followed in the same call (outside a batch) by a new
\* fetch; inside an open batch changes start no fetch, and the outermost exit
\* starts exactly one fetch for any number of changes made in the batch (when
\* no effect of the drain writes a signal); a new fetch aborts the signal of
\* every earlier one.
C28_DependencyRefetch ==
  /\ NewestSupersedes
  /\ \A e \in DepsEffects :
       /\ Len(FetchesBy(e)) = Runs(e)
       /\ batchDepth = 0 =>
            \A i \in LogIdx :
              (SigChanged(i) /\ log[i][2] \in Range(eff[e].reads)) =>
                 \E j \in (i + 1)..Len(log) : log[j][1] = "refetch" /\ log[j][2] = e
       /\ (batchDepth > 0 /\ lastOp.op # "create") => FetchesBy(e) = <<>>
       /\ OutermostExit =>
            /\ Has(SchedEffects, e) => Len(FetchesBy(e)) >= 1
            /\ ~WriteInDrain => Len(FetchesBy(e)) = (IF Has(SchedEffects, e) THEN 1 ELSE 0)

\* the dependency changed twice inside one batch while a fetch was in flight;
\* the exit started one fetch, which superseded the one in flight
C28_Witness ==
  /\ OutermostExit
  /\ \E e \in DepsEffects :
       /\ Cardinality({i \in 1..Len(schedLog) : schedLog[i][1] = e}) >= 2
       /\ Len(FetchesBy(e)) = 1
       /\ LET k == FetchesBy(e)[1]
          IN k > 1 /\ fetches[k - 1].state = "pending" /\ fetches[k - 1].aborted

\* outside a batch a write changed the dependency and a fetch started at once
C28_WitnessDirect ==
  /\ ChangingWrite /\ lastOp.depth = 0
  /\ \E e \in DepsEffects : Len(FetchesBy(e)) = 1 /\ lastOp.s \in Range(eff[e].reads)


(***************************************************************************)
(* Part III - client.js : hydrateDOMElement, createDOMElementForHydration  *)
(***************************************************************************)
\* live DOM nodes; key is dataset.key (0: absent)
TextN(id, t) == [id |-> id, type |-> "text", tag |-> "", text |-> t, key |-> 0, kids |-> <<>>]
ElemN(id, tag, key, kids) ==
  [id |-> id, type |-> "el", tag |-> tag, text |-> "", key |-> key, kids |-> kids]
\* virtual nodes; key is props.key (0: absent, also falsy in the source)
VNull == [k |-> "null", tag |-> "", text |-> "", key |-> 0, kids |-> <<>>]
VText(t) == [k |-> "text", tag |-> "", text |-> t, key |-> 0, kids |-> <<>>]
VElem(tag, key, kids) == [k |-> "el", tag |-> tag, text |-> "", key |-> key, kids |-> kids]
VArr(kids) == [k |-> "arr", tag |-> "", text |-> "", key |-> 0, kids |-> kids]
\* the placeholder true, and an object without type, children and props.children
VTrue == [k |-> "true", tag |-> "", text |-> "", key |-> 0, kids |-> <<>>]
VObj == [k |-> "obj", tag |-> "", text |-> "", key |-> 0, kids |-> <<>>]
\* a call that calls itself with the same arguments and no change of state:
\* the call stack overflows and a RangeError is thrown
Overflow(st) == [st EXCEPT !.threw = TRUE]

\* ids of nodes created by a pass start at 1000, above every initial id

\* node.nodeType === TEXT_NODE && !node.textContent.trim()
IsWs(n) == n.type = "text" /\ n.text = " "

\* node.nextSibling as an index into the parent's child list (0: null)
NextSib(kids, i) == IF i # 0 /\ i < Len(kids) THEN i + 1 ELSE 0

\* the helper skipWhitespace of hydrateDOMElement
RECURSIVE skipWhitespace(_, _)
skipWhitespace(kids, i) ==
  IF i # 0 /\ IsWs(kids[i]) THEN skipWhitespace(kids, NextSib(kids, i)) ELSE i

RemoveAt(seq, i) == SubSeq(seq, 1, i - 1) \o SubSeq(seq, i + 1, Len(seq))
\* parent.insertBefore(seq[j], seq[i]) for i < j
MoveBefore(seq, j, i) ==
  SubSeq(seq, 1, i - 1) \o <<seq[j]>> \o SubSeq(seq, i, j - 1) \o SubSeq(seq, j + 1, Len(seq))

Step(st, pid, what) == [st EXCEPT !.walk = Append(@, <<pid, what>>)]

\* nodesMatch
nodesMatch(v, n) ==
  IF v.k = "text" THEN n.type = "text"
  ELSE IF v.k = "el" /\ n.type = "el"
       THEN IF v.key # 0 /\ n.key # 0 THEN v.tag = n.tag /\ n.key = v.key
            ELSE v.tag = n.tag
       ELSE FALSE

\* createDOMElementForHydration: the nodes created (none for null / false)
RECURSIVE createDOMElementForHydration(_, _)
RECURSIVE createAll(_, _, _)
createDOMElementForHydration(v, st) ==
  CASE v.k = "null" -> [nodes |-> <<>>, st |-> st]
    [] v.k \in {"true", "obj"} -> [nodes |-> <<>>, st |-> Overflow(st)]
    [] v.k = "text" ->
         [nodes |-> <<TextN(st.nextId, v.text)>>, st |-> [st EXCEPT !.nextId = @ + 1]]
    [] v.k = "arr" -> createAll(v.kids, 1, st)
    [] OTHER ->
         LET c == createAll(v.kids, 1, [st EXCEPT !.nextId = @ + 1])
         IN IF c.st.threw THEN [nodes |-> <<>>, st |-> c.st]
            ELSE [nodes |-> <<ElemN(st.nextId, v.tag, v.key, c.nodes)>>, st |-> c.st]
createAll(vs, i, st) ==
  IF i > Len(vs) \/ st.threw THEN [nodes |-> <<>>, st |-> st]
  ELSE LET c == createDOMElementForHydration(vs[i], st)
           rest == createAll(vs, i + 1, c.st)
       IN [nodes |-> c.nodes \o rest.nodes, st |-> rest.st]

\* the sibling the walk continues with after element.replaceChild(newChild,
\* domChild): domChild.nextSibling is read from the node just detached
siblingAfterReplace(kids, di) == 0

\* variant: the forward search for a keyed sibling never finds one
foundNodeNone(v, kids, di) == 0

\* the first later sibling nodesMatch accepts (0: none)
foundNode(v, kids, di) ==
  LET c == {j \in (di + 1)..Len(kids) : nodesMatch(v, kids[j])}
  IN IF c = {} THEN 0 ELSE CHOOSE j \in c : \A x \in c : j <= x

RECURSIVE hydrateDOMElement(_, _, _)
RECURSIVE hydrateChildren(_, _, _, _, _, _)

\* hydrateDOMElement for a primitive, null or structured node against the live
\* node n: the node found in n's place afterwards
hydrateDOMElement(v, n, st) ==
  CASE v.k = "null" -> [node |-> n, st |-> st]
    [] v.k = "true" -> [node |-> n, st |-> Overflow(st)]
    [] v.k = "obj" -> [node |-> n, st |-> st]
    [] v.k = "text" ->
         IF n.type = "text"
         THEN IF n.text # v.text
              THEN [node |-> [n EXCEPT !.text = v.text], st |-> Step(st, n.id, "patch")]
              ELSE [node |-> n, st |-> st]
         ELSE [node |-> TextN(st.nextId, v.text),
               st |-> Step([st EXCEPT !.nextId = @ + 1], n.id, "swap")]
    [] OTHER ->
         IF n.type # "el" \/ n.tag # v.tag
         THEN LET c == createDOMElementForHydration(v, st)
              IN IF c.st.threw THEN [node |-> n, st |-> c.st]
                 ELSE [node |-> c.nodes[1], st |-> Step(c.st, n.id, "swap")]
         ELSE LET el == IF v.key # 0 /\ n.key = 0 THEN [n EXCEPT !.key = v.key] ELSE n
                  r == hydrateChildren(el.id, v.kids, el.kids,
                                       skipWhitespace(el.kids, IF el.kids = <<>> THEN 0 ELSE 1),
                                       1, st)
              IN [node |-> [el EXCEPT !.kids = r.kids], st |-> r.st]

\* the children loop of hydrateDOMElement: di is domChild (0: null), vi is
\* vnodeIndex + 1
hydrateChildren(pid, vkids, kids, di, vi, st) ==
  IF st.threw \/ (vi > Len(vkids) /\ di = 0) THEN [kids |-> kids, st |-> st]
  ELSE IF vi > Len(vkids)
  THEN \* extra dom nodes
       IF IsWs(kids[di])
       THEN hydrateChildren(pid, vkids, kids, skipWhitespace(kids, NextSib(kids, di)), vi, st)
       ELSE LET kids2 == RemoveAt(kids, di)
            IN hydrateChildren(pid, vkids, kids2,
                               skipWhitespace(kids2, IF di <= Len(kids2) THEN di ELSE 0),
                               vi, Step(st, pid, "remove"))
  ELSE IF di = 0
  THEN \* missing dom nodes
       LET c == createDOMElementForHydration(vkids[vi], st)
       IN hydrateChildren(pid, vkids, kids \o c.nodes, 0, vi + 1,
                          IF c.nodes = <<>> THEN c.st ELSE Step(c.st, pid, "create"))
  ELSE IF vkids[vi].k = "null"
  THEN hydrateChildren(pid, vkids, kids, di, vi + 1, st)
  ELSE IF ~nodesMatch(vkids[vi], kids[di])
  THEN LET f == IF vkids[vi].key # 0 THEN foundNode(vkids[vi], kids, di) ELSE 0
       IN IF f # 0
          THEN LET kids2 == MoveBefore(kids, f, di)
                   h == hydrateDOMElement(vkids[vi], kids2[di], Step(st, pid, "move"))
                   kids3 == [kids2 EXCEPT ![di] = h.node]
               IN hydrateChildren(pid, vkids, kids3,
                                  skipWhitespace(kids3, NextSib(kids3, di)), vi + 1, h.st)
          ELSE LET c == createDOMElementForHydration(vkids[vi], st)
                   kids2 == SubSeq(kids, 1, di - 1) \o c.nodes \o SubSeq(kids, di + 1, Len(kids))
               IN IF c.st.threw THEN [kids |-> kids, st |-> c.st]
                  ELSE hydrateChildren(pid, vkids, kids2,
                                       skipWhitespace(kids2, siblingAfterReplace(kids2, di)),
                                       vi + 1, Step(c.st, pid, "replace"))
  ELSE LET h == hydrateDOMElement(vkids[vi], kids[di], Step(st, pid, "match"))
           kids2 == [kids EXCEPT ![di] = h.node]
       IN hydrateChildren(pid, vkids, kids2, skipWhitespace(kids2, NextSib(kids2, di)),
                          vi + 1, h.st)

\* the array branch of hydrateDOMElement, called on the first child of the
\* container: every hydrated node is appended to a document fragment, which
\* takes it out of the container; kids are the nodes left in the container
RECURSIVE hydrateArray(_, _, _, _, _)
hydrateArray(vkids, kids, frag, i, st) ==
  IF i > Len(vkids) \/ st.threw THEN [kids |-> kids, frag |-> frag, st |-> st]
  ELSE IF vkids[i].k = "null" THEN hydrateArray(vkids, kids, frag, i + 1, st)
  ELSE IF kids # <<>>
  THEN LET h == hydrateDOMElement(vkids[i], kids[1], Step(st, 0, "consume"))
       IN hydrateArray(vkids, Tail(kids), Append(frag, h.node), i + 1, h.st)
  ELSE LET c == createDOMElementForHydration(vkids[i], st)
       IN hydrateArray(vkids, kids, frag \o c.nodes, i + 1,
                       IF c.st.threw THEN c.st ELSE Step(c.st, 0, "create"))

\* ---- the inputs of a pass -------------------------------------------------
LiveLeaves ==
  {TextN(0, "x"), TextN(0, " "), ElemN(0, "a", 0, <<>>), ElemN(0, "a", 1, <<>>),
   ElemN(0, "a", 2, <<>>), ElemN(0, "b", 0, <<>>), ElemN(0, "a", 0, <<TextN(0, "x")>>)}
VLeaves ==
  {VNull, VText("x"), VText("y"), VElem("a", 0, <<>>), VElem("a", 1, <<>>),
   VElem("a", 2, <<>>), VElem("b", 0, <<>>), VElem("a", 0, <<VText("y")>>),
   VTrue, VObj}
SeqsUpTo(S, n) == UNION {[1..m -> S] : m \in 0..n}
\* node ids by position: child i of the container or root is 10 + i
Label(seq) ==
  [i \in 1..Len(seq) |->
     [seq[i] EXCEPT !.id = 10 + i,
                    !.kids = [j \in 1..Len(seq[i].kids) |->
                                [seq[i].kids[j] EXCEPT !.id = 100 + 10 * i + j]]]]
LiveKidSeqs == {Label(q) : q \in SeqsUpTo(LiveLeaves, MaxKids)}
VKidSeqs == SeqsUpTo(VLeaves, MaxKids)

HInit ==
  /\ \E vk \in VKidSeqs, lk \in LiveKidSeqs :
       \/ /\ vtree = VElem("a", 0, vk)
          /\ live \in {<<ElemN(1, "a", 0, lk)>>, <<ElemN(1, "b", 0, lk)>>}
       \/ /\ vtree = VArr(vk)
          /\ lk # <<>>
          /\ live = lk
  /\ hst = [nextId |-> 1000, walk |-> <<>>, before |-> <<>>, threw |-> FALSE]
  /\ passes = 0

\* the first run of the render effect of cowgirl on server-rendered content:
\* hydrateDOMElement(content, containerEl.firstChild)
Hydrate ==
  /\ passes = 0
  /\ live # <<>>
  /\ LET st0 == [hst EXCEPT !.walk = <<>>, !.before = live]
     IN IF vtree.k = "arr"
        THEN LET r == hydrateArray(vtree.kids, live, <<>>, 1, st0)
             IN live' = r.kids /\ hst' = r.st
        ELSE LET h == hydrateDOMElement(vtree, live[1], st0)
             IN live' = <<h.node>> \o Tail(live) /\ hst' = h.st
  /\ passes' = passes + 1
  /\ UNCHANGED <<vtree, rvars, resvars, evars, lvars, mnt, tvars>>


\* ---- properties of a pass -------------------------------------------------
\* tags, texts and child order of live nodes, whitespace-only text left out
RECURSIVE NormLive(_)
NormLive(kids) ==
  IF kids = <<>> THEN <<>>
  ELSE LET n == Head(kids)
       IN (IF IsWs(n) THEN <<>>
           ELSE <<[type |-> n.type, tag |-> n.tag, text |-> n.text,
                   kids |-> NormLive(n.kids)]>>) \o NormLive(Tail(kids))
\* tags, texts and child order of virtual nodes, null placeholders left out
RECURSIVE NormV(_)
NormV(vs) ==
  IF vs = <<>> THEN <<>>
  ELSE LET v == Head(vs)
       IN (IF v.k = "null" THEN <<>>
           ELSE <<[type |-> v.k, tag |-> v.tag, text |-> v.text,
                   kids |-> NormV(v.kids)]>>) \o NormV(Tail(vs))

Max(a, b) == IF a > b THEN a ELSE b
Min(a, b) == IF a < b THEN a ELSE b
Steps(pid, what) ==
  Cardinality({i \in 1..Len(hst.walk) : hst.walk[i][1] = pid /\ hst.walk[i][2] \in what})
NonNull(vs) == Cardinality({i \in 1..Len(vs) : vs[i].k # "null"})
NonWs(kids) == Cardinality({i \in 1..Len(kids) : ~IsWs(kids[i])})

\* C9: after one pass the live tree has the tags, texts and child order of the
\* virtual tree, whitespace-only live text nodes ignored.
C9_PassConverges ==
  passes = 1 =>
    IF vtree.k = "arr" THEN NormLive(live) = NormV(vtree.kids)
    ELSE NormLive(<<live[1]>>) = NormV(<<vtree>>)

\* C10: in the walk over the children of a matching element every non-null
\* virtual child consumes one live sibling while live siblings remain (also
\* after a replacement), only the shortfall is created, the surplus is
\* removed; the walk over a sequence leaves no surplus non-whitespace sibling.
C10_OneForOneWalk ==
  passes = 1 =>
    IF vtree.k = "arr" THEN NonWs(live) = 0
    ELSE (hst.before[1].type = "el" /\ hst.before[1].tag = vtree.tag) =>
           LET n == NonNull(vtree.kids)
               m == NonWs(hst.before[1].kids)
           IN /\ Steps(1, {"match", "move", "replace"}) = Min(n, m)
              /\ Steps(1, {"create"}) = Max(0, n - m)
              /\ Steps(1, {"remove"}) = Max(0, m - n)
              /\ NonWs(live[1].kids) = n

\* C20: a pass, with the node creation it uses for repairs, ends without
\* throwing for every virtual tree of primitives, null / false / true
\* placeholders, sequences, structured nodes and type-less objects.
C20_PassTerminates == passes = 1 => ~hst.threw

\* the passes over virtual trees without true placeholders and type-less
\* objects end without throwing
C20_TypedPassTerminates ==
  LET vs == vtree.kids
      Typed(v) == v.k \notin {"true", "obj"}
  IN (passes = 1 /\ \A i \in 1..Len(vs) : Typed(vs[i])) => ~hst.threw

\* ---- a second pass over the tree a first pass left ---------------------------
\* the virtual children of the repeated passes: a whitespace-only text among
\* them (JSX keeps {" "} as a text child)
RehydrateLeaves ==
  {VNull, VText("x"), VText(" "), VElem("a", 0, <<>>), VElem("b", 0, <<>>),
   VElem("a", 0, <<VText(" ")>>)}
HInitAgain ==
  /\ \E vk \in SeqsUpTo(RehydrateLeaves, MaxKids), lk \in LiveKidSeqs :
       /\ vtree = VElem("a", 0, vk)
       /\ live \in {<<ElemN(1, "a", 0, lk)>>, <<ElemN(1, "b", 0, lk)>>}
  /\ hst = [nextId |-> 1000, walk |-> <<>>, before |-> <<>>, threw |-> FALSE]
  /\ passes = 0
\* hydrateDOMElement called again with the same virtual tree on the live tree
\* the pass before it returned
HydrateAgain ==
  /\ passes \in 1..(MaxPasses - 1)
  /\ ~hst.threw
  /\ live # <<>>
  /\ LET st0 == [hst EXCEPT !.walk = <<>>, !.before = live]
         h == hydrateDOMElement(vtree, live[1], st0)
     IN live' = <<h.node>> \o Tail(live) /\ hst' = h.st
  /\ passes' = passes + 1
  /\ UNCHANGED <<vtree, rvars, resvars, evars, lvars, mnt, tvars>>

Mutations == {"patch", "swap", "remove", "create", "move", "replace"}
\* C38: a pass over the live tree an earlier pass with the same virtual tree
\* returned changes nothing: it creates, removes, moves and replaces no node,
\* writes no text, and the live tree after it is the live tree before it.
C38_SecondPassIdle ==
  (passes >= 2 /\ ~hst.threw) =>
    /\ \A i \in 1..Len(hst.walk) : hst.walk[i][2] \notin Mutations
    /\ live = hst.before
\* the second passes over virtual trees without whitespace-only texts, on
\* live trees the first pass left with every mismatch repaired in place
C38_SecondPassIdleNoBlank ==
  LET Blank(v) == v.k = "text" /\ v.text = " "
      NoBlank(vs) == \A i \in 1..Len(vs) :
                       ~Blank(vs[i]) /\ \A j \in 1..Len(vs[i].kids) : ~Blank(vs[i].kids[j])
  IN (passes >= 2 /\ ~hst.threw /\ NoBlank(vtree.kids)
        /\ NormLive(hst.before) = NormV(<<vtree>>)) =>
       /\ \A i \in 1..Len(hst.walk) : hst.walk[i][2] \notin Mutations
       /\ live = hst.before

\* ---- keyed lists ------------------------------------------------------------
Keys == 1..MaxKeys
Perms(n) == {p \in [1..n -> 1..n] : \A i, j \in 1..n : p[i] = p[j] => i = j}
InsertAt(seq, w, x) == SubSeq(seq, 1, w - 1) \o <<x>> \o SubSeq(seq, w, Len(seq))
\* a keyed virtual list (distinct keys in the order q, tags t) and the live
\* siblings it was rendered from, permuted by p, with a whitespace text node
\* before position w (0: no whitespace)
KeyedV(q, t) == [i \in 1..Len(q) |-> VElem(t[q[i]], q[i], <<>>)]
KeyedLive(q, t, p, w) ==
  LET els == [i \in 1..Len(q) |-> ElemN(0, t[q[p[i]]], q[p[i]], <<>>)]
      all == IF w = 0 THEN els ELSE InsertAt(els, w, TextN(0, " "))
  IN [i \in 1..Len(all) |-> [all[i] EXCEPT !.id = 10 + i]]

HInitKeyed ==
  /\ \E n \in 1..MaxKeys :
       \E q \in {f \in [1..n -> Keys] : \A i, j \in 1..n : f[i] = f[j] => i = j},
          t \in [Keys -> {"a", "b"}], p \in Perms(n), w \in 0..(n + 1) :
         /\ vtree = VElem("a", 0, KeyedV(q, t))
         /\ live = <<ElemN(1, "a", 0, KeyedLive(q, t, p, w))>>
  /\ hst = [nextId |-> 1000, walk |-> <<>>, before |-> <<>>, threw |-> FALSE]
  /\ passes = 0

Significant(kids) == SelectSeq(kids, LAMBDA n : ~IsWs(n))
KeysOf(seq) == [i \in 1..Len(seq) |-> seq[i].key]
\* the live siblings before the pass are a permutation of the keyed virtual list
KeyedPair ==
  /\ vtree.k = "el" /\ hst.before # <<>>
  /\ hst.before[1].type = "el" /\ hst.before[1].tag = vtree.tag
  /\ LET vk == vtree.kids
         lk == Significant(hst.before[1].kids)
     IN /\ Len(vk) = Len(lk)
        /\ \A i \in 1..Len(vk) : vk[i].k = "el" /\ vk[i].key # 0
        /\ \E p \in Perms(Len(vk)) :
             \A i \in 1..Len(vk) :
               /\ lk[i].type = "el"
               /\ lk[i].tag = vk[p[i]].tag
               /\ lk[i].key = vk[p[i]].key

Document == 0
Elem == 1..NElem
parentElement(el) == el - 1
EvNames == {"click", "input"}
\* user handlers: one that returns, one that calls e.stopPropagation()
Handlers == {"plain", "stop"}
NoAttr == [ev |-> "none", h |-> "none"]
OnEvent(ev, h) == [ev |-> ev, h |-> h]

\* delegateEvent(eventName, element, handler) on the record of the module and
\* element state
delegateEvent(st, ev, el, h) ==
  LET s1 == [st EXCEPT !.handlerLists[el][ev] = Append(@, h)]
  IN IF ev \notin s1.delegatedEvents
     THEN [s1 EXCEPT !.rootListeners = Append(@, ev), !.delegatedEvents = @ \cup {ev}]
     ELSE s1

\* the props loop of hydrateDOMElement over the elements of the tree, root
\* first: an `on...` function prop calls delegateEvent
RECURSIVE hydrateProps(_, _, _)
hydrateProps(st, at, el) ==
  IF el > NElem THEN st
  ELSE hydrateProps(IF at[el].ev = "none" THEN st
                    ELSE delegateEvent(st, at[el].ev, el, at[el].h),
                    at, el + 1)

\* handlers.forEach((h) => h.call(target, e)): the calls made and whether
\* e.cancelBubble is set afterwards
Invoke(el, hs, cancel) ==
  [calls |-> [i \in 1..Len(hs) |-> <<el, hs[i]>>],
   cancel |-> cancel \/ Has(hs, "stop")]

\* variant: the walk does not look at e.cancelBubble
cancelledIgnored(cancel) == FALSE

\* if (e.cancelBubble) return
cancelled(cancel) == cancel

\* delegatedHandler: the walk from e.target up to the delegation root
RECURSIVE delegatedHandler(_, _, _, _)
delegatedHandler(lists, ev, target, ec) ==
  IF target = Document THEN ec
  ELSE IF lists[target][ev] # <<>>
       THEN LET r == Invoke(target, lists[target][ev], ec.cancel)
                ec2 == [calls |-> ec.calls \o r.calls, cancel |-> r.cancel]
            IN IF cancelled(ec2.cancel) THEN ec2
               ELSE delegatedHandler(lists, ev, parentElement(target), ec2)
       ELSE delegatedHandler(lists, ev, parentElement(target), ec)

\* the capture listeners of the document for the event type, in the order
\* they were added
RECURSIVE fire(_, _, _, _, _)
fire(listeners, i, lists, e, ec) ==
  IF i > Len(listeners) THEN ec
  ELSE fire(listeners, i + 1, lists, e,
            IF listeners[i] = e.ev THEN delegatedHandler(lists, e.ev, e.target, ec) ELSE ec)

EInitWith(attrSets) ==
  /\ handlerLists = [el \in Elem |-> [ev \in EvNames |-> <<>>]]
  /\ delegatedEvents = {}
  /\ rootListeners = <<>>
  /\ attrs \in attrSets
  /\ npass = 0
  /\ dlog = <<>>
  /\ dop = [op |-> "init", ev |-> "none", target |-> 0]

AllAttrs == [Elem -> {NoAttr} \cup {OnEvent(ev, h) : ev \in EvNames, h \in Handlers}]
EIdle == EInitWith({[el \in Elem |-> NoAttr]})

\* one hydration pass over the live elements (the first run of the render
\* effect of a mount): hydrateDOMElement visits every element once
HydratePass ==
  /\ npass < MaxPasses
  /\ LET st == hydrateProps([handlerLists |-> handlerLists,
                             delegatedEvents |-> delegatedEvents,
                             rootListeners |-> rootListeners], attrs, 1)
     IN /\ handlerLists' = st.handlerLists
        /\ delegatedEvents' = st.delegatedEvents
        /\ rootListeners' = st.rootListeners
  /\ npass' = npass + 1
  /\ dlog' = <<>>
  /\ dop' = [op |-> "pass", ev |-> "none", target |-> 0]
  /\ UNCHANGED <<attrs, rvars, resvars, hvars, lvars, mnt, tvars>>

\* the browser dispatches one event of type ev with e.target = target
Dispatch ==
  \E ev \in EvNames, target \in Elem :
    /\ dlog' = fire(rootListeners, 1, handlerLists, [ev |-> ev, target |-> target],
                    [calls |-> <<>>, cancel |-> FALSE]).calls
    /\ dop' = [op |-> "dispatch", ev |-> ev, target |-> target]
    /\ UNCHANGED <<handlerLists, delegatedEvents, rootListeners, attrs, npass,
                   rvars, resvars, hvars, lvars, mnt, tvars>>

Calls(el, h) == Cardinality({i \in 1..Len(dlog) : dlog[i] = <<el, h>>})
Dispatched == dop.op = "dispatch"

\* C18: after k >= 1 passes over an element whose virtual node carries a
\* handler attribute, one event of that type dispatched on the element calls
\* the handler exactly once.
C18_HandlerCalledOnce ==
  (Dispatched /\ npass >= 1 /\ attrs[dop.target].ev = dop.ev) =>
     Calls(dop.target, attrs[dop.target].h) = 1

\* C19: the document carries at most one delegated listener per event type;
\* a dispatched event calls handlers of the target and its ancestors only,
\* from the target upward, and after a handler has cancelled propagation no
\* handler of an ancestor of its element is called.
C19_OneListenerWalkUp ==
  /\ \A ev \in EvNames :
       Cardinality({i \in 1..Len(rootListeners) : rootListeners[i] = ev}) <= 1
  /\ \A ev \in EvNames :
       (\E el \in Elem : handlerLists[el][ev] # <<>>) =>
          (ev \in delegatedEvents /\ Has(rootListeners, ev))
  /\ Dispatched =>
       /\ \A i \in 1..Len(dlog) :
            dlog[i][1] <= dop.target /\ Has(handlerLists[dlog[i][1]][dop.ev], dlog[i][2])
       /\ \A i, j \in 1..Len(dlog) : i < j => dlog[i][1] >= dlog[j][1]
       /\ \A i, j \in 1..Len(dlog) : dlog[i][2] = "stop" => dlog[j][1] >= dlog[i][1]
       /\ \A el \in 1..dop.target :
            (handlerLists[el][dop.ev] # <<>> /\
             \A d \in (el + 1)..dop.target : ~Has(handlerLists[d][dop.ev], "stop")) =>
               \E i \in 1..Len(dlog) : dlog[i][1] = el

\* three elements carry handlers for one event type, the target's handler
\* returns, its parent's handler cancels propagation: the grandparent's
\* handler is not called, and there is one listener on the document
C19_Witness ==
  /\ Dispatched /\ dop.target = NElem
  /\ \A el \in Elem : attrs[el].ev = dop.ev
  /\ attrs[NElem].h = "plain" /\ attrs[NElem - 1].h = "stop"
  /\ Calls(NElem, "plain") >= 1 /\ Calls(NElem - 1, "stop") >= 1
  /\ \A i \in 1..Len(dlog) : dlog[i][1] >= NElem - 1
  /\ Len(rootListeners) = 1

(***************************************************************************)
(* Part V - reactivity.js : useLocation (reference-counted singleton)      *)
(***************************************************************************)
NoInstance == [sig |-> 0, refCount |-> 0]      \* locationInstance = null
WinEvents == {"popstate", "pushstate", "replacestate"}
Paths == 0..MaxVal                             \* the locations the window visits
HandleId == 1..MaxHandles

\* the module and window state useLocation works on
LS == [inst |-> locationInstance, listeners |-> winListeners, values |-> locValue,
       patched |-> historyPatched, threw |-> FALSE]

\* events.forEach((e) => window.addEventListener(e, update)); `update` is the
\* closure of the signal numbered sig
addListeners(ls, sig) == [ev \in WinEvents |-> Append(ls[ev], sig)]

\* events.forEach((e) => window.removeEventListener(e, update))
removeListeners(ls, sig) == [ev \in WinEvents |-> SelectSeq(ls[ev], LAMBDA x : x # sig)]

\* useLocation() in a browser: st after the call, and the signal of the handle
useLocation(st, path) ==
  IF st.inst # NoInstance
  THEN [st EXCEPT !.inst.refCount = @ + 1]
  ELSE LET sig == Len(st.values) + 1
       IN [st EXCEPT !.patched = TRUE,
                     !.values = Append(@, path),
                     !.listeners = addListeners(@, sig),
                     !.inst = [sig |-> sig, refCount |-> 1]]

\* variant: dispose tears the subscription down without counting
handleDisposeUncounted(st) ==
  IF st.inst = NoInstance THEN [st EXCEPT !.threw = TRUE]
  ELSE [st EXCEPT !.listeners = removeListeners(@, st.inst.sig), !.inst = NoInstance]

\* the dispose of a handle:
\* if (--locationInstance.refCount === 0) { locationInstance.dispose();
\* locationInstance = null }; with locationInstance null the decrement throws
handleDispose(st) ==
  IF st.inst = NoInstance THEN [st EXCEPT !.threw = TRUE]
  ELSE IF st.inst.refCount - 1 = 0
       THEN [st EXCEPT !.listeners = removeListeners(@, st.inst.sig), !.inst = NoInstance]
       ELSE [st EXCEPT !.inst.refCount = @ - 1]

\* the window dispatches the event ev after its location became path: every
\* listener runs update = () => batch(() => setLocation(getLoc()))
RECURSIVE dispatchWin(_, _, _, _)
dispatchWin(vals, ls, i, path) ==
  IF i > Len(ls) THEN vals
  ELSE dispatchWin([vals EXCEPT ![ls[i]] = path], ls, i + 1, path)

LInstall(st) ==
  /\ locationInstance' = st.inst
  /\ winListeners' = st.listeners
  /\ locValue' = st.values
  /\ historyPatched' = st.patched

\* no call of useLocation has been made
LIdle ==
  /\ locationInstance = NoInstance
  /\ winListeners = [ev \in WinEvents |-> <<>>]
  /\ handles = <<>>
  /\ locValue = <<>>
  /\ winPath = 0
  /\ historyPatched = FALSE
  /\ epoch = 0
  /\ lop = [op |-> "init", h |-> 0, threw |-> FALSE]

Undisposed == {h \in 1..Len(handles) : ~handles[h].disposed}

\* a call site calls useLocation()
UseLocation ==
  /\ Len(handles) < MaxHandles
  /\ LET st == useLocation(LS, winPath)
     IN /\ LInstall(st)
        /\ handles' = Append(handles, [sig |-> st.inst.sig, disposed |-> FALSE,
                                       epoch |-> epoch])
        /\ lop' = [op |-> "use", h |-> Len(handles) + 1, threw |-> st.threw]
  /\ UNCHANGED <<winPath, epoch, rvars, resvars, hvars, evars, mnt, tvars>>

\* a call site calls the dispose of its handle, which it has not disposed yet
DisposeHandle ==
  \E h \in Undisposed :
    LET st == handleDispose(LS)
    IN /\ LInstall(st)
       /\ handles' = [handles EXCEPT ![h].disposed = TRUE]
       /\ epoch' = IF Undisposed = {h} THEN epoch + 1 ELSE epoch
       /\ lop' = [op |-> "dispose", h |-> h, threw |-> st.threw]
       /\ UNCHANGED <<winPath, rvars, resvars, hvars, evars, mnt, tvars>>

\* a call site calls the dispose of a handle it has disposed before
DisposeAgain ==
  \E h \in (1..Len(handles)) \ Undisposed :
    LET st == handleDispose(LS)
    IN /\ LInstall(st)
       /\ lop' = [op |-> "disposeAgain", h |-> h, threw |-> st.threw,
                  pre |-> [inst |-> locationInstance, listeners |-> winListeners]]
       /\ UNCHANGED <<handles, winPath, epoch, rvars, resvars, hvars, evars, mnt, tvars>>

\* the location changes: history.back() (popstate), history.pushState or
\* history.replaceState; the last two dispatch an event once history has been
\* patched by the first useLocation call
LocationChange ==
  \E ev \in WinEvents, p \in Paths :
    /\ winPath' = p
    /\ locValue' = IF ev = "popstate" \/ historyPatched
                   THEN dispatchWin(locValue, winListeners[ev], 1, p)
                   ELSE locValue
    /\ lop' = [op |-> ev, h |-> 0, threw |-> FALSE]
    /\ UNCHANGED <<locationInstance, winListeners, handles, historyPatched, epoch,
                   rvars, resvars, hvars, evars, mnt, tvars>>

\* C25: while at least one handle is undisposed, exactly one `update` closure
\* is registered for each of the three window events, it belongs to the
\* signal every undisposed handle holds, and the reference count is the
\* number of undisposed handles; two handles obtained without the count
\* returning to zero in between hold the same signal; with no undisposed
\* handle no listener is registered; no call throws.
C25_OneSubscription ==
  /\ ~lop.threw
  /\ Undisposed # {} =>
       /\ locationInstance # NoInstance
       /\ locationInstance.refCount = Cardinality(Undisposed)
       /\ \A ev \in WinEvents : winListeners[ev] = <<locationInstance.sig>>
       /\ \A h \in Undisposed : handles[h].sig = locationInstance.sig
       /\ locValue[locationInstance.sig] = winPath
  /\ Undisposed = {} =>
       /\ locationInstance = NoInstance
       /\ \A ev \in WinEvents : winListeners[ev] = <<>>
  /\ \A h1, h2 \in 1..Len(handles) :
       handles[h1].epoch = handles[h2].epoch <=> handles[h1].sig = handles[h2].sig

\* three handles: the first two shared one subscription, which was torn down
\* when both were disposed; the third made a new one
C25_Witness ==
  /\ Len(handles) = 3
  /\ handles[1].disposed /\ handles[2].disposed /\ ~handles[3].disposed
  /\ handles[1].sig = handles[2].sig /\ handles[3].sig # handles[1].sig
  /\ winListeners["popstate"] = <<handles[3].sig>>

\* C37: calling the dispose of a handle again does not throw, leaves the
\* reference count as it was and removes no listener
C37_DisposeIdempotent ==
  lop.op = "disposeAgain" =>
    /\ ~lop.threw
    /\ locationInstance = lop.pre.inst
    /\ winListeners = lop.pre.listeners

(***************************************************************************)
(* Part VI: cowgirl, the render effect and the router                      *)
(***************************************************************************)

\* the container arguments of cowgirl: an HTMLElement, a selector matching an
\* HTMLElement, null, a selector matching nothing, an element that is not an
\* HTMLElement (an SVG element), an object that is no element
Containers == <<"element", "selector", "null", "noMatch", "svg", "object">>

\* typeof container === 'string' ? document.querySelector(container) : container
containerEl(c) ==
  CASE c = "selector" -> "element"
    [] c = "noMatch" -> "null"
    [] OTHER -> c

\* variant: only the null check is made
validContainerNotNull(c) == containerEl(c) # "null"

\* !(!containerEl || !(containerEl instanceof HTMLElement))
validContainer(c) == containerEl(c) = "element"

\* a new DOM node
newNode(rt) == [rt EXCEPT !.mnt.nextNode = @ + 1]

\* setCurrentParams(params): params is a new object, never Object.is-equal to
\* the stored one, so the subscribers are always notified
writeObject(rt, s, v) ==
  LET r == Emit(rt, <<"setobj", s, rt.value[s], v>>)
  IN notify([r EXCEPT !.value[s] = v], s, r.subscribers[s], 1)

\* createRouter.matchCurrentRoute; whether it returned a match is Matches
Matches(rt) == rt.mnt.routes[rt.value[PathSig]] # "none"
matchCurrentRoute(rt) ==
  LET r == read(rt, PathSig)
  IN IF Matches(r) THEN writeObject(r, ParamsSig, r.value[PathSig]) ELSE r

\* variant: render patches the first child in place when it shows the same
\* route already
renderInPlace(rt, path) ==
  LET c == rt.mnt.container
  IN IF c.kind = "content" /\ c.path = path
     THEN Emit(rt, <<"render", path, c.root, c.root>>)
     ELSE Emit(newNode([rt EXCEPT !.mnt.container =
                          [kind |-> "content", path |-> path, root |-> rt.mnt.nextNode]]),
               <<"render", path, 0, rt.mnt.nextNode>>)

\* render(vnode, container) for a tree createDOMElement accepts:
\* container.innerHTML = '' and a new element is appended.  The event holds
\* the root that showed the same route before the call (0 when none did) and
\* the root after it
render(rt, path) ==
  LET c == rt.mnt.container
      same == IF c.kind = "content" /\ c.path = path THEN c.root ELSE 0
  IN Emit(newNode([rt EXCEPT !.mnt.container =
                     [kind |-> "content", path |-> path, root |-> rt.mnt.nextNode]]),
          <<"render", path, same, rt.mnt.nextNode>>)

\* render(vnode, container) for an object without type: the container is
\* emptied, then createDOMElement calls itself until the stack is used up
renderBadTree(rt) ==
  Emit([rt EXCEPT !.mnt.container = EmptyContainer, !.threw = TRUE],
       <<"rthrow", rt.value[PathSig], 3, 0>>)

\* hydrateDOMElement(content, appRoot): the existing root is adopted and
\* repaired in place; an object without type is reported and left alone
hydrate(rt, path, kind) ==
  LET c == rt.mnt.container
      r == IF kind = "badTree" THEN rt
           ELSE [rt EXCEPT !.mnt.container = [kind |-> "content", path |-> path,
                                              root |-> c.root]]
  IN Emit([r EXCEPT !.mnt.isFirstRender = FALSE], <<"hydrate", path, c.root, c.root>>)

\* variant: the catch block writes the message of Error values only and
\* copes with every other thrown value
catchRenderAnyValue(rt, nullThrown) ==
  Emit(newNode([rt EXCEPT !.threw = FALSE,
                          !.mnt.container = [kind |-> "error", path |-> rt.value[PathSig],
                                             root |-> rt.mnt.nextNode]]),
       <<"rcatch", rt.value[PathSig], 0, rt.mnt.nextNode>>)

\* catch (error) { console.error(..); containerEl.innerHTML = `..${error.message}..` }:
\* reading .message of null throws a TypeError out of the catch block
catchRender(rt, nullThrown) ==
  IF nullThrown THEN Emit([rt EXCEPT !.threw = TRUE], <<"rcatch", rt.value[PathSig], 1, 0>>)
  ELSE Emit(newNode([rt EXCEPT !.threw = FALSE,
                               !.mnt.container = [kind |-> "error",
                                                  path |-> rt.value[PathSig],
                                                  root |-> rt.mnt.nextNode]]),
            <<"rcatch", rt.value[PathSig], 0, rt.mnt.nextNode>>)

\* `throw` inside the try block of the render effect; what: 1 the handler
\* throws an Error, 2 the handler throws null, 4 the call stack is used up
throwIn(rt, what) ==
  Emit([rt EXCEPT !.threw = TRUE], <<"rthrow", rt.value[PathSig], what, 0>>)

\* if (isHydrating && isFirstRender && containerEl.firstChild) hydrate, else
\* render(content, containerEl)
renderContent(rt, path, kind) ==
  IF rt.mnt.isHydrating /\ rt.mnt.isFirstRender /\ rt.mnt.container.kind # "empty"
  THEN hydrate(rt, path, kind)
  ELSE IF kind = "badTree" THEN catchRender(renderBadTree(rt), FALSE)
       ELSE render(rt, path)

\* match.handler({ path, params }), after currentParams() has been read
callHandler(rt, path, kind) ==
  IF kind \in {"throws", "throwsNull"}
  THEN catchRender(throwIn(rt, IF kind = "throws" THEN 1 ELSE 2), kind = "throwsNull")
  ELSE renderContent(rt, path, kind)

\* if (match) { ... }, after matchRoute() has returned
renderMatched(rt, path, kind) ==
  IF kind = "none" THEN rt ELSE callHandler(read(rt, ParamsSig), path, kind)

\* the function cowgirl passes to onClimax.  A run nested deeper than the
\* call stack holds throws a RangeError where its try block starts
renderEffect(rt, e) ==
  IF Len(rt.effectStack) > StackLimit THEN catchRender(throwIn(rt, 4), FALSE)
  ELSE renderMatched(matchCurrentRoute(read(rt, PathSig)), rt.value[PathSig],
                     rt.mnt.routes[rt.value[PathSig]])

RenderBody == [NoBody EXCEPT !.created = TRUE, !.kind = "render"]

\* createRouter.init
routerInit(rt) ==
  matchCurrentRoute([rt EXCEPT !.mnt.popListeners = @ + 1])

\* cowgirl(app, container) from `if (!clientRouter)` on; e is the effect it
\* creates
cowgirl(rt, e) ==
  LET r1 == [rt EXCEPT !.mnt.clientRouter = TRUE]
      r2 == IF r1.mnt.isRouterInitialized THEN r1
            ELSE [routerInit(r1) EXCEPT !.mnt.isRouterInitialized = TRUE]
      r3 == [r2 EXCEPT !.mnt.isFirstRender = TRUE, !.eff[e] = RenderBody,
                       !.mnt.mounted = @ + 1]
      r4 == onClimax(r3, e)
  IN [r4 EXCEPT !.mnt.docListeners = Append(@, "click") \o <<"mouseover">>,
                !.mnt.observers = @ + 2]

\* createRouter.navigate(path)
navigate(rt, p) ==
  matchCurrentRoute(write([rt EXCEPT !.mnt.winPath = p], PathSig, p))

\* createRouter.handlePopState
handlePopState(rt) == matchCurrentRoute(write(rt, PathSig, rt.mnt.winPath))

\* the applications: what is registered for each path; the handlers of the
\* first two paths vary, the other paths render
Apps == {routes \in [Paths -> HandlerKinds] : \A p \in Paths : p > 1 => routes[p] = "ok"}

\* before cowgirl: the routes are registered (Route creates the router), the
\* container is empty or holds the server's rendering of the current path
MInit ==
  \E routes \in Apps, ssr \in BOOLEAN :
    mnt = [NoMount EXCEPT
             !.routes = routes,
             !.clientRouter = \E p \in Paths : routes[p] # "none",
             !.isHydrating = ssr,
             !.container = IF ssr THEN [kind |-> "content", path |-> 0, root |-> 1]
                           ELSE EmptyContainer,
             !.nextNode = IF ssr THEN 2 ELSE 1]

\* cowgirl has not been called and nothing is registered
MIdle == mnt = NoMount

MOp(name, s) == Op(name, s, 0, 0)
MUnchanged ==
  UNCHANGED <<prog, prevStack, opsInBatch, schedLog, incRun, settled, queued, rlog, rop,
              hvars, evars, lvars>>

\* user code calls cowgirl(app, container)
Mount ==
  \E i \in 1..Len(Containers) :
    /\ ~validContainer(Containers[i]) \/ mnt.mounted = 0
    /\ IF ~validContainer(Containers[i])
       THEN Install([RT EXCEPT !.threw = TRUE], Op("mount", 0, i, 0))
            /\ created' = created
       ELSE Install(cowgirl(RT, created + 1), Op("mount", created + 1, i, 0))
            /\ created' = created + 1
    /\ MUnchanged

\* user code, or the click handler of cowgirl, calls router.navigate(p)
Navigate ==
  \E p \in Paths :
    /\ mnt.mounted > 0 /\ mnt.navs < MaxNav
    /\ Install(navigate([RT EXCEPT !.mnt.navs = @ + 1], p), MOp("navigate", p))
    /\ created' = created
    /\ MUnchanged

\* the browser goes to history entry p and fires popstate
PopState ==
  \E p \in Paths :
    /\ mnt.isRouterInitialized /\ mnt.navs < MaxNav
    /\ Install(handlePopState([RT EXCEPT !.mnt.navs = @ + 1, !.mnt.winPath = p]),
               MOp("popstate", p))
    /\ created' = created
    /\ MUnchanged

\* ---- properties of the mount ----------------------------------------------

\* the last call was cowgirl with a container that is no HTMLElement
InvalidMount ==
  /\ lastOp.op = "mount"
  /\ Containers[lastOp.old] \in {"null", "noMatch", "svg", "object"}

\* C23: a call of cowgirl whose container is not an HTMLElement, or is a
\* selector that matches nothing, throws out of the call and changes nothing:
\* the router is not initialised, no effect is created, no listener is
\* installed on the window or the document, and the signals keep their
\* subscribers
C23_InvalidMountThrows ==
  InvalidMount =>
    /\ log = << <<"uncaught", 0, 0, 0>> >>
    /\ mnt = lastOp.mpre
    /\ created = mnt.mounted
    /\ \A e \in Eff : e > created => ~eff[e].created
    /\ mnt.mounted = 0 =>
         /\ ~mnt.isRouterInitialized
         /\ mnt.popListeners = 0
         /\ mnt.docListeners = <<>>
         /\ mnt.observers = 0
         /\ \A s \in Sig : subscribers[s] = <<>>

\* cowgirl was called with an element that is not an HTMLElement before any
\* mount: it threw and the router is not initialised
C23_Witness ==
  /\ lastOp.op = "mount"
  /\ Containers[lastOp.old] = "svg"
  /\ log = << <<"uncaught", 0, 0, 0>> >>
  /\ mnt.routes[0] = "ok"
  /\ mnt.clientRouter /\ ~mnt.isRouterInitialized
  /\ created = 0 /\ mnt.docListeners = <<>>

\* C21: when the render effect is evaluated again and the container shows the
\* tree of the same route already, the nodes are kept: the first child of the
\* container after the evaluation is the node that was there before it
C21_MinimalDiff ==
  \A i \in LogIdx : (log[i][1] = "render" /\ log[i][3] # 0) => log[i][4] = log[i][3]

\* the handler (1 an Error, 2 null) or the rendering (3) threw at log index i
RenderThrew(i) == log[i][1] = "rthrow" /\ log[i][3] \in {1, 2, 3}
RenderEffects == {e \in Eff : eff[e].kind = "render" /\ ~eff[e].disposed}

\* C24: when the route handler or the rendering throws inside the render
\* effect, the exception does not leave the call that ran the effect, the
\* catch block puts the error message into the container and, when that was
\* the last thing the effect did, the container shows the message for the
\* current path; the effect stays subscribed to the current path, and a
\* navigation away from an error message to a route that renders shows that
\* route
C24_RenderErrorContained ==
  /\ (\E i \in LogIdx : RenderThrew(i)) =>
       /\ \A j \in LogIdx : log[j][1] # "uncaught"
       /\ \A i \in LogIdx :
            RenderThrew(i) =>
              /\ i < Len(log)
              /\ log[i + 1][1] = "rcatch" /\ log[i + 1][3] = 0
       /\ mnt.routes[value[PathSig]] \in {"throws", "throwsNull"} =>
            /\ mnt.container.kind = "error"
            /\ mnt.container.path = value[PathSig]
       /\ \A e \in RenderEffects : Has(subscribers[PathSig], e)
  /\ (/\ lastOp.op \in {"navigate", "popstate"}
      /\ lastOp.mpre.container.kind = "error"
      /\ mnt.routes[value[PathSig]] = "ok"
      /\ RenderEffects # {}) =>
       /\ mnt.container.kind = "content"
       /\ mnt.container.path = value[PathSig]

\* C31: one router.navigate(path) or one popstate runs the render effect at
\* most once for the write of the current path and once for the write of the
\* current params made by the router itself; no run of the effect starts
\* while the effect is running, and the call stack is never used up
C31_NavigationTerminates ==
  lastOp.op \in {"navigate", "popstate"} =>
    \A e \in RenderEffects :
      /\ Runs(e) <= 2
      /\ \A i \in LogIdx :
           /\ ~(log[i][1] = "frame" /\ log[i][2] = e /\ log[i][4] = e)
           /\ ~(log[i][1] = "rthrow" /\ log[i][3] = 4)

(***************************************************************************)
(* Part VII - dev.js : the rebuild trigger ; hmr.js : the HMR client        *)
(***************************************************************************)
\* the files the watcher reports, by what the callback and the classification
\* of the update look at: extension and a /client/ path segment
Watched == {"css", "clientjs", "serverjs"}
FileNames == Watched \cup {"md"}
updateType(f) ==
  CASE f = "css" -> "css-update"
    [] f = "clientjs" -> "js-update"
    [] OTHER -> "server-update"
NoUpdate == [type |-> "none", path |-> "", to |-> 0]
\* timers: the pending setTimeout callbacks <<id, filePath>>; rebuildTimeout:
\* the id the variable holds (0: undefined); builds: the runBuild() calls in
\* flight, [path, fresh], fresh while no change was reported since the start;
\* unbuilt: a watched change was reported that no settled rebuild started after
DevStart ==
  [timers |-> {}, rebuildTimeout |-> 0, isRebuilding |-> FALSE, builds |-> <<>>,
   clients |-> 0, sent |-> NoUpdate, changes |-> 0, unbuilt |-> FALSE]
DevUnchanged == UNCHANGED <<rvars, resvars, hvars, evars, lvars, mnt, hmr>>

clearTimeout(timers, id) == {t \in timers : t[1] # id}
\* triggerRebuild(filePath): clear the timer of the variable, set a new one
triggerRebuild(d, f) ==
  LET id == d.changes + 1
  IN [d EXCEPT !.timers = clearTimeout(d.timers, d.rebuildTimeout) \cup {<<id, f>>},
               !.rebuildTimeout = id]
\* the callback handed to watch(): files of other extensions are ignored
FileChange ==
  /\ dev.changes < MaxChanges
  /\ \E f \in FileNames :
       LET d == IF f \in Watched
                THEN [triggerRebuild(dev, f) EXCEPT
                        !.unbuilt = TRUE,
                        !.builds = [i \in 1..Len(dev.builds) |->
                                      [dev.builds[i] EXCEPT !.fresh = FALSE]]]
                ELSE dev
       IN dev' = [d EXCEPT !.changes = dev.changes + 1]
  /\ DevUnchanged
\* the timer callback without the test of the flag
timerCallbackAlways(d, t) ==
  [d EXCEPT !.timers = d.timers \ {t}, !.isRebuilding = TRUE,
            !.builds = Append(d.builds, [path |-> t[2], fresh |-> TRUE])]
\* the timer callback up to its await: returns while a rebuild is running,
\* else sets the flag and calls runBuild()
timerCallback(d, t) ==
  LET d1 == [d EXCEPT !.timers = d.timers \ {t}]
  IN IF d.isRebuilding THEN d1
     ELSE [d1 EXCEPT !.isRebuilding = TRUE,
                     !.builds = Append(d.builds, [path |-> t[2], fresh |-> TRUE])]
RebuildTimer ==
  /\ \E t \in dev.timers : dev' = timerCallback(dev, t)
  /\ DevUnchanged
\* the rest of the callback once runBuild() has settled: on success the update
\* is classified and sent to the open clients; finally the flag is reset
BuildSettled ==
  /\ \E i \in 1..Len(dev.builds), ok \in BOOLEAN :
       LET b == dev.builds[i]
       IN dev' = [dev EXCEPT
                    !.builds = [j \in 1..(Len(dev.builds) - 1) |->
                                  IF j < i THEN dev.builds[j] ELSE dev.builds[j + 1]],
                    !.sent = IF ok THEN [type |-> updateType(b.path), path |-> b.path,
                                         to |-> dev.clients]
                             ELSE dev.sent,
                    !.isRebuilding = FALSE,
                    !.unbuilt = IF b.fresh THEN FALSE ELSE dev.unbuilt]
  /\ DevUnchanged
\* wss.on('connection') and ws.on('close')
ClientConnect ==
  /\ dev.clients < MaxClients
  /\ dev' = [dev EXCEPT !.clients = @ + 1]
  /\ DevUnchanged
ClientClose ==
  /\ dev.clients > 0
  /\ dev' = [dev EXCEPT !.clients = @ - 1]
  /\ DevUnchanged

\* at most one rebuild runs at a time
OneRebuildAtATime == Len(dev.builds) <= 1 /\ (dev.isRebuilding <=> dev.builds # <<>>)
\* every watched change is followed by a settled rebuild that started after it
ChangesGetBuilt == dev.unbuilt ~> ~dev.unbuilt
\* C39: at most one rebuild runs at a time, and every watched source-file
\* change is eventually followed by a completed rebuild that started after
\* the change, also when the change arrives while a rebuild is in progress.
C39_RebuildsFollowChanges == []OneRebuildAtATime /\ ChangesGetBuilt
\* the rebuild that a change during a running rebuild asked for is dropped
DroppedRebuild ==
  /\ dev.unbuilt /\ dev.timers = {} /\ ~dev.isRebuilding

\* ---- hmr.js ------------------------------------------------------------------
maxReconnectAttempts == 10
\* sockets: readyState of every WebSocket constructed, in order; timers: the
\* pending reconnect timers, named by the socket whose close set them;
\* reconnectTimeout: the timer the variable holds (0: null); disposed, late,
\* sinceOpen, op: disposeHMR was called, sockets constructed after it,
\* reconnections since the last open event, the last step
HmrStart ==
  [sockets |-> <<>>, hmrWebSocket |-> 0, reconnectAttempts |-> 0, reconnectTimeout |-> 0,
   timers |-> {}, disposed |-> FALSE, late |-> 0, sinceOpen |-> 0, op |-> "init"]
HmrUnchanged == UNCHANGED <<rvars, resvars, hvars, evars, lvars, mnt, dev>>
TIdle == dev = DevStart /\ hmr = HmrStart

\* connectHMR up to the registration of the listeners
connectHMR(h) ==
  [h EXCEPT !.sockets = Append(h.sockets, "connecting"),
            !.hmrWebSocket = Len(h.sockets) + 1,
            !.late = IF h.disposed THEN h.late + 1 ELSE h.late]
InitHMR ==
  /\ hmr.sockets = <<>>
  /\ ~hmr.disposed
  /\ hmr' = [connectHMR(hmr) EXCEPT !.op = "connect"]
  /\ HmrUnchanged
\* the "open" listener
onOpen(h, s) ==
  [h EXCEPT !.sockets[s] = "open",
            !.reconnectAttempts = 0,
            !.timers = h.timers \ {h.reconnectTimeout},
            !.reconnectTimeout = 0,
            !.sinceOpen = 0]
SocketOpen ==
  /\ \E s \in 1..Len(hmr.sockets) :
       /\ hmr.sockets[s] = "connecting"
       /\ hmr' = [onOpen(hmr, s) EXCEPT !.op = "open"]
  /\ HmrUnchanged
\* the "close" listener without the clearTimeout before the new timer
onCloseNoClear(h, s) ==
  IF h.reconnectAttempts < maxReconnectAttempts
  THEN [h EXCEPT !.sockets[s] = "closed",
                 !.reconnectAttempts = h.reconnectAttempts + 1,
                 !.timers = h.timers \cup {s},
                 !.reconnectTimeout = s]
  ELSE [h EXCEPT !.sockets[s] = "closed"]
\* the "close" listener
onClose(h, s) ==
  LET cleared == h.timers \ {h.reconnectTimeout}
      h1 == [h EXCEPT !.sockets[s] = "closed", !.timers = cleared]
  IN IF h.reconnectAttempts < maxReconnectAttempts
     THEN [h1 EXCEPT !.reconnectAttempts = h.reconnectAttempts + 1,
                     !.timers = cleared \cup {s},
                     !.reconnectTimeout = s]
     ELSE h1
\* the connection fails, is closed by the server, or ends its closing handshake
SocketClose ==
  /\ \E s \in 1..Len(hmr.sockets) :
       /\ hmr.sockets[s] # "closed"
       /\ hmr' = [onClose(hmr, s) EXCEPT !.op = "close"]
  /\ HmrUnchanged
\* the reconnect timer fires
ReconnectTimer ==
  /\ Len(hmr.sockets) < MaxSockets
  /\ \E t \in hmr.timers :
       hmr' = [connectHMR([hmr EXCEPT !.timers = hmr.timers \ {t},
                                      !.reconnectTimeout = 0])
                 EXCEPT !.sinceOpen = hmr.sinceOpen + 1, !.op = "reconnect"]
  /\ HmrUnchanged
\* WebSocket.close(): a socket that is not closed starts its closing handshake
close(state) == IF state \in {"connecting", "open"} THEN "closing" ELSE state
disposeHMR(h) ==
  LET h1 == [h EXCEPT !.timers = h.timers \ {h.reconnectTimeout}, !.reconnectTimeout = 0]
  IN IF h.hmrWebSocket # 0
     THEN [h1 EXCEPT !.sockets[h.hmrWebSocket] = close(h.sockets[h.hmrWebSocket]),
                     !.hmrWebSocket = 0]
     ELSE h1
DisposeHMR ==
  /\ hmr' = [disposeHMR(hmr) EXCEPT !.disposed = TRUE, !.op = "dispose"]
  /\ HmrUnchanged

\* at most one reconnect timer is pending, at most maxReconnectAttempts
\* reconnections follow one another without an open event, the open event
\* resets the counter
C40_Reconnects ==
  /\ Cardinality(hmr.timers) <= 1
  /\ hmr.sinceOpen <= maxReconnectAttempts
  /\ hmr.reconnectAttempts <= maxReconnectAttempts
  /\ hmr.op = "open" => hmr.reconnectAttempts = 0
\* the client has given up: ten reconnections failed, no timer is pending
GaveUp ==
  /\ hmr.sinceOpen = maxReconnectAttempts
  /\ hmr.timers = {}
  /\ \A s \in 1..Len(hmr.sockets) : hmr.sockets[s] = "closed"
\* C40: after disposeHMR() no new WebSocket is constructed and no reconnect
\* timer is pending; at most one reconnect timer is pending at a time, the
\* client gives up after 10 failed attempts in a row, and an open event
\* resets the counter.
C40_DisposedStaysClosed ==
  /\ hmr.disposed => (hmr.late = 0 /\ hmr.timers = {})
  /\ C40_Reconnects

(***************************************************************************)
(* Specifications                                                          *)
(***************************************************************************)
\* the parts of the state a specification does not exercise
HIdle ==
  /\ live = <<>>
  /\ vtree = VNull
  /\ hst = [nextId |-> 1000, walk |-> <<>>, before |-> <<>>, threw |-> FALSE]
  /\ passes = 0
RIdle == RInitWith({<<>>})

\* signals, effects and batches
Init == RInitWith(Programs) /\ ResIdle /\ HIdle /\ EIdle /\ LIdle /\ MIdle /\ TIdle
Next == RNext
Spec == Init /\ [][Next]_vars
\* signals, memos and batches
InitMemo == RInitWith(MemoPrograms) /\ ResIdle /\ HIdle /\ EIdle /\ LIdle /\ MIdle /\ TIdle
SpecMemo == InitMemo /\ [][Next]_vars
\* signals, effects, batches and batch.schedule
SchedPrograms == { <<Obs(<<1>>), Obs(<<1, 2>>)>>, <<Writer(1, 2), Obs(<<2>>)>> }
InitSched == RInitWith(SchedPrograms) /\ ResIdle /\ HIdle /\ EIdle /\ LIdle /\ MIdle /\ TIdle
NextSched == CreateEffect \/ Write \/ BatchEnter \/ BatchExit \/ Schedule
SpecSched == InitSched /\ [][NextSched]_vars
\* batches whose function throws
NextThrow == CreateEffect \/ Write \/ BatchEnter \/ BatchExit \/ BatchThrow
SpecThrow == InitSched /\ [][NextThrow]_vars
\* a resource with a dependency accessor: a signal, a memo, a signal an
\* effect writes
DepsPrograms ==
  { <<Deps(<<1>>)>>,
    <<Memo(1, "mod2", <<1>>), Deps(<<OutSig(1)>>)>>,
    <<Writer(1, 2), Deps(<<2>>)>> }
InitDeps == RInitWith(DepsPrograms) /\ ResIdle /\ HIdle /\ EIdle /\ LIdle /\ MIdle /\ TIdle
NextDeps == CreateEffect \/ Write \/ BatchEnter \/ BatchExit
SpecDeps == InitDeps /\ [][NextDeps]_vars
\* the useLocation singleton
InitLocation == RIdle /\ ResIdle /\ HIdle /\ EIdle /\ LIdle /\ MIdle /\ TIdle
NextLocation == UseLocation \/ DisposeHandle \/ LocationChange
SpecLocation == InitLocation /\ [][NextLocation]_vars
\* useLocation with call sites that dispose a handle more than once
NextLocationAgain == UseLocation \/ DisposeHandle \/ DisposeAgain \/ LocationChange
SpecLocationAgain == InitLocation /\ [][NextLocationAgain]_vars
\* signals, effects with cleanups and throwing functions, disposers, batches
\* one application, mounted and navigated
InitMount == RIdle /\ ResIdle /\ HIdle /\ EIdle /\ LIdle /\ MInit /\ TIdle
NextMount == Mount \/ Navigate \/ PopState
SpecMount == InitMount /\ [][NextMount]_vars
InitLife == RInitWith(LifePrograms) /\ ResIdle /\ HIdle /\ EIdle /\ LIdle /\ MIdle /\ TIdle
NextLife == CreateEffect \/ Write \/ BatchEnter \/ BatchExit \/ DisposeEffect
SpecLife == InitLife /\ [][NextLife]_vars
\* an effect that writes and reads a signal inside untrack, alone and with a
\* subscriber of that signal
UntrackPrograms == { <<Untracker(1, 2)>>, <<Obs(<<2>>), Untracker(1, 2)>> }
InitUntrack == RInitWith(UntrackPrograms) /\ ResIdle /\ HIdle /\ EIdle /\ LIdle /\ MIdle /\ TIdle
SpecUntrack == InitUntrack /\ [][NextDeps]_vars
\* an effect that returns a function and calls its own disposer, and the
\* effects with cleanups disposed by user code
SelfDisposePrograms ==
  { <<Returning(SelfDisposer(<<1>>), "fn")>>, <<Returning(Obs(<<1>>), "fn")>> }
InitSelfDispose ==
  RInitWith(SelfDisposePrograms) /\ ResIdle /\ HIdle /\ EIdle /\ LIdle /\ MIdle /\ TIdle
SpecSelfDispose == InitSelfDispose /\ [][NextLife]_vars
\* an effect whose returned function reads a signal the effect does not read
CleanupPrograms == { <<ReturningReader(Obs(<<1>>), 2)>> }
InitCleanup == RInitWith(CleanupPrograms) /\ ResIdle /\ HIdle /\ EIdle /\ LIdle /\ MIdle /\ TIdle
SpecCleanup == InitCleanup /\ [][NextLife]_vars
\* one async resource
InitResource == RIdle /\ ResInit /\ HIdle /\ EIdle /\ LIdle /\ MIdle /\ TIdle
NextResource == ResNext
SpecResource == InitResource /\ [][NextResource]_vars
\* one reconciliation pass over a live tree
InitHydrate == RIdle /\ ResIdle /\ HInit /\ EIdle /\ LIdle /\ MIdle /\ TIdle
NextHydrate == Hydrate
SpecHydrate == InitHydrate /\ [][NextHydrate]_vars
\* the dev server: the timers fire and the builds settle
InitDev == RIdle /\ ResIdle /\ HIdle /\ EIdle /\ LIdle /\ MIdle /\ TIdle
NextDev == FileChange \/ RebuildTimer \/ BuildSettled \/ ClientConnect \/ ClientClose
SpecDev == InitDev /\ [][NextDev]_vars
\* the dev server when no file changes while a rebuild runs
QuietChange == ~dev.isRebuilding /\ FileChange
NextDevQuiet == QuietChange \/ RebuildTimer \/ BuildSettled \/ ClientConnect \/ ClientClose
FairDev == WF_vars(RebuildTimer) /\ WF_vars(BuildSettled)
SpecDevFair == InitDev /\ [][NextDev]_vars /\ FairDev
SpecDevQuiet == InitDev /\ [][NextDevQuiet]_vars /\ FairDev
\* the HMR client
InitHmr == RIdle /\ ResIdle /\ HIdle /\ EIdle /\ LIdle /\ MIdle /\ TIdle
NextHmr == InitHMR \/ SocketOpen \/ SocketClose \/ ReconnectTimer \/ DisposeHMR
SpecHmr == InitHmr /\ [][NextHmr]_vars
NextHmrKept == InitHMR \/ SocketOpen \/ SocketClose \/ ReconnectTimer
SpecHmrKept == InitHmr /\ [][NextHmrKept]_vars
\* repeated reconciliation passes with the same virtual tree
InitRehydrate == RIdle /\ ResIdle /\ HInitAgain /\ EIdle /\ LIdle /\ MIdle /\ TIdle
NextRehydrate == Hydrate \/ HydrateAgain
SpecRehydrate == InitRehydrate /\ [][NextRehydrate]_vars
\* one reconciliation pass over a reordered keyed list
InitKeyed == RIdle /\ ResIdle /\ HInitKeyed /\ EIdle /\ LIdle /\ MIdle /\ TIdle
NextKeyed == Hydrate
SpecKeyed == InitKeyed /\ [][NextKeyed]_vars
\* hydration passes over elements with handler attributes, and events
InitEvents == RIdle /\ ResIdle /\ HIdle /\ EInitWith(AllAttrs) /\ LIdle /\ MIdle /\ TIdle
NextEvents == HydratePass \/ Dispatch
SpecEvents == InitEvents /\ [][NextEvents]_vars

=============================================================================
